---- MODULE Spec2Model ----
(***************************************************************************)
(* State-machine model of strapi-kit's migration pipeline.                 *)
(*                                                                         *)
(*   SpecImport  StrapiImporter.import_data (export/importer.py): the      *)
(*               media pass, the entity pass and the relation pass, one    *)
(*               action per loop iteration, with the target server's       *)
(*               answers and the progress callback's behaviour as inputs.  *)
(*               SpecImportMedia is the same program, for the properties   *)
(*               of the media pass and of the contents of the requests.    *)
(*   SpecStream  stream_entities (operations/streaming.py): the generator  *)
(*               and its consumer, one action per fetch, yield and         *)
(*               end-of-page check.                                        *)
(*   SpecJsonl   JSONLExportWriter / JSONLImportReader                     *)
(*               (export/jsonl_writer.py, export/jsonl_reader.py).         *)
(*   SpecDetect  BaseClient._detect_api_version (client/base.py).          *)
(*   SpecData    RelationResolver.extract_relations, strip_relations and   *)
(*               MediaHandler.extract_media_references on entity data.     *)
(*   SpecExport  StrapiExporter.export_content_types (export/exporter.py). *)
(*   SpecResolve RelationResolver.resolve_relations and                    *)
(*               build_relation_payload (export/relation_resolver.py).     *)
(*   SpecMediaRefs  MediaHandler.update_media_references.                  *)
(*   SpecSchema  extract_info_from_schema (utils/schema.py).               *)
(*   SpecBulk    AsyncClient.bulk_create / bulk_update / bulk_delete       *)
(*               (client/async_client.py), one action per task step.       *)
(*   SpecRetry   the tenacity retry loop of BaseClient (client/base.py).   *)
(*   SpecSaveLoad  StrapiExporter.save_to_file and                         *)
(*               StrapiImporter.load_from_file on one export file.         *)
(*   SpecNested  RelationResolver.extract_relations_with_schema and its    *)
(*               recursion into components, as a stack of frames;          *)
(*               SpecNestedLive adds that the call keeps running.          *)
(*   SpecUid     the three conversions of a content-type UID to an         *)
(*               endpoint (importer, exporter fallback, utils/uid.py).     *)
(***************************************************************************)
EXTENDS Integers, Sequences, FiniteSets, TLC

VARIABLES
    \* ---- import_data: arguments
    entities,        \* export_data.entities: content-type UID -> list of ExportedEntity
    media,           \* export_data.media: list of ExportedMediaFile (their ids)
    metadata,        \* export_data.metadata (version, strapi_version)
    options,         \* ImportOptions
    media_dir,       \* "none" (None) | "missing" (path does not exist) | "exists"
    \* ---- import_data: locals and the result accumulator
    result,          \* ImportResult
    content_types_to_import,
    media_id_mapping,
    pc,              \* position in import_data
    k,               \* index of the current loop iteration (media, entity or relation loop)
    \* ---- the target instance, seen through the client
    target,          \* endpoint -> number of entities created there so far
    uploads,         \* number of files uploaded so far
    requests,        \* every create / update / upload request issued, in order
    logged           \* the warnings written to the module's logger, in order

VARIABLES
    \* ---- stream_entities: the server behind client.get_many
    page_sizes,      \* page number -> number of entities in response.data for that page
    page_count,      \* meta.pagination.page_count of every response, NoMeta when absent
    \* ---- stream_entities: the generator
    current_page,
    pos,             \* entities of the current response already yielded
    gen_pc,          \* "created" | "fetch" | "yield_from" | "suspended" | "check" | "done"
                     \* | "raised"
    page_size,       \* the caller's page_size argument
    gen_exc,         \* class of the exception that left the generator, "" when none
    fetched,         \* the pages requested with get_many, in order
    yielded          \* the entities handed to the caller, as <<page, index>>, in order

streamVars == <<page_sizes, page_count, current_page, pos, gen_pc, page_size, gen_exc,
                fetched, yielded>>

importVars == <<entities, media, metadata, options, media_dir, result,
                content_types_to_import, media_id_mapping, pc, k,
                target, uploads, requests, logged>>

VARIABLES
    \* ---- the JSONL container: the file, as its lines in order
    file,
    \* ---- JSONLExportWriter
    w_pc,                   \* "new" | "open" | "closed"; "foreign" for a file it did not write
    _entity_count,
    _content_type_counts,
    written,                \* the arguments of the write_* calls made, in order
    \* ---- JSONLImportReader
    r_pc,                   \* "new" | "open"
    r_pos,                  \* lines of the file consumed through self._file
    _metadata,              \* None, or the ExportMetadata read
    _media_manifest,        \* None, or the list of ExportedMediaFile read
    _current_line,
    it_pc,                  \* the caller's iter_entities() generator:
                            \* "none" | "created" | "suspended" | "done" | "raised"
    consumed,               \* entities taken from the file, in order, each as yielded to
                            \* the caller or discarded by read_media_manifest
    format_errors,          \* FormatErrors raised: <<kind, line number reported, line read>>
    warned,                 \* line numbers of the logger.warning calls
    manifest_ret,           \* what the last read_media_manifest call returned
    metadata_ret,           \* what the last read_metadata call returned
    metadata_reads          \* physical lines consumed by read_metadata

jsonlVars == <<file, w_pc, _entity_count, _content_type_counts, written, r_pc, r_pos, _metadata,
               _media_manifest, _current_line, it_pc, consumed, format_errors, warned,
               manifest_ret, metadata_ret, metadata_reads>>

VARIABLES
    \* ---- BaseClient: API version detection
    config_api_version,     \* config.api_version: "auto" | "v4" | "v5"
    _api_version,           \* None | "v4" | "v5"
    detect_ret,             \* what the last _detect_api_version call returned
    responses               \* the response bodies handed to _detect_api_version, in order

detectVars == <<config_api_version, _api_version, detect_ret, responses>>

VARIABLES
    \* ---- RelationResolver and MediaHandler applied to one attributes mapping
    d_data,                 \* the attributes mapping handed to the functions
    d_relations,            \* what extract_relations(d_data) returned
    d_media_ids,            \* what extract_media_references(d_data) returned
    d_cleaned               \* what strip_relations(d_data) returned

dataVars == <<d_data, d_relations, d_media_ids, d_cleaned>>

VARIABLES
    \* ---- StrapiExporter.export_content_types
    x_source,               \* content-type UID -> the entities the source instance streams
    x_server,               \* media id -> what the source instance does when asked for it
    x_args,                 \* content_types, include_media, media_dir
    export_data,            \* the ExportData being built
    x_pc,                   \* "start" | "types" | "done" | "raised"
    x_idx,                  \* position in content_types
    x_exc                   \* what made export_content_types raise, "" when nothing did

exportVars == <<x_source, x_server, x_args, export_data, x_pc, x_idx, x_exc>>

VARIABLES
    \* ---- RelationResolver.resolve_relations and build_relation_payload
    rel_relations,          \* the `relations` argument: field -> list of ids
    rel_id_mapping,         \* the `id_mapping` argument: content type -> {old_id: new_id}
    rel_content_type,       \* the `content_type` argument
    rel_resolved,           \* what resolve_relations returned
    rel_warnings,           \* the logger.warning calls of resolve_relations, in order
    rel_payload             \* what build_relation_payload(rel_relations) returned

resolveVars == <<rel_relations, rel_id_mapping, rel_content_type, rel_resolved, rel_warnings,
                 rel_payload>>

VARIABLES
    \* ---- MediaHandler.update_media_references
    um_data,                \* the `data` argument
    um_mapping,             \* the `media_id_mapping` argument
    um_ret                  \* what update_media_references returned

mediaRefsVars == <<um_data, um_mapping, um_ret>>

VARIABLES
    \* ---- utils.schema.extract_info_from_schema
    si_schema,              \* the `schema` argument: a dict of the API response
    si_ret                  \* what extract_info_from_schema returned

schemaVars == <<si_schema, si_ret>>

VARIABLES
    \* ---- AsyncClient.bulk_create / bulk_update / bulk_delete: arguments
    b_op,                   \* "create" | "update" | "delete"
    b_items,                \* the items (updates, ids) to process
    batch_size,
    max_concurrency,
    \* ---- the coroutine of the bulk operation
    b_pc,                   \* "loop" | "gather" | "returned" | "raised"
    batch_start,
    b_successes,            \* `successes`: the entities of the responses, by item index
    b_failures,             \* `failures`: the BulkOperationFailure records, in order
    completed,
    success_count,          \* bulk_delete only
    b_result,               \* the BulkOperationResult returned
    \* ---- the event loop
    tasks,                  \* item index -> state of its task: "none" (not created) |
                            \* "waiting" (for the semaphore) | "in_flight" (request sent) |
                            \* "done" | "exception" (ended with an exception)
    semaphore,              \* the value of the current batch's asyncio.Semaphore
    progress_calls          \* the calls of progress_callback, in order: (completed,
                            \* total), and the index of the task that made the call

bulkVars == <<b_op, b_items, batch_size, max_concurrency, b_pc, batch_start, b_successes,
              b_failures, completed, success_count, b_result, tasks, semaphore,
              progress_calls>>

VARIABLES
    \* ---- one client request under the retry decorator
    retry_config,           \* config.retry: max_attempts, retry_on_status
    attempts,               \* what each HTTP attempt of the request ended with, in order
    rq_pc,                  \* "call" (an attempt is to be made) | "returned" | "raised"
    rq_exc                  \* class of the exception the request raised, "" when none

retryVars == <<retry_config, attempts, rq_pc, rq_exc>>

VARIABLES
    \* ---- StrapiExporter.save_to_file / load_from_file
    sl_export_data,         \* the ExportData handed to save_to_file
    sl_file,                \* the file at file_path: Unset (absent) or what json.load makes of it
    sl_loaded,              \* what load_from_file returned, Unset before it returns
    sl_pc,                  \* "start" | "saved" | "loaded" | "raised"
    sl_exc                  \* class of the exception load_from_file raised, "" when none

saveLoadVars == <<sl_export_data, sl_file, sl_loaded, sl_pc, sl_exc>>

VARIABLES
    \* ---- RelationResolver.extract_relations_with_schema
    xr_data,                \* the entity attributes handed to the call
    xr_cache,               \* schema_cache: "none" (None) | "all" | "b_fails"
    xr_stack,               \* the frames of the call and of _extract_from_component
    xr_ret,                 \* the mapping returned, Unset before the call returns
    xr_pc                   \* "call" | "run" | "done"

nestedVars == <<xr_data, xr_cache, xr_stack, xr_ret, xr_pc>>

VARIABLES
    \* ---- the three conversions of a content-type UID to an endpoint
    ue_uid,                 \* the UID, as its characters
    ue_importer,            \* what StrapiImporter._uid_to_endpoint returned
    ue_exporter,            \* what StrapiExporter._uid_to_endpoint_fallback returned
    ue_utils                \* what utils.uid_to_endpoint returned

uidVars == <<ue_uid, ue_importer, ue_exporter, ue_utils>>

\* what an operation of one component leaves alone: the other components
notImport == <<streamVars, jsonlVars, detectVars, dataVars, exportVars, resolveVars, mediaRefsVars, schemaVars, bulkVars, retryVars, saveLoadVars, nestedVars, uidVars>>
notStream == <<importVars, jsonlVars, detectVars, dataVars, exportVars, resolveVars, mediaRefsVars, schemaVars, bulkVars, retryVars, saveLoadVars, nestedVars, uidVars>>
notJsonl  == <<importVars, streamVars, detectVars, dataVars, exportVars, resolveVars, mediaRefsVars, schemaVars, bulkVars, retryVars, saveLoadVars, nestedVars, uidVars>>
notDetect == <<importVars, streamVars, jsonlVars, dataVars, exportVars, resolveVars, mediaRefsVars, schemaVars, bulkVars, retryVars, saveLoadVars, nestedVars, uidVars>>
notData   == <<importVars, streamVars, jsonlVars, detectVars, exportVars, resolveVars, mediaRefsVars, schemaVars, bulkVars, retryVars, saveLoadVars, nestedVars, uidVars>>
notExport == <<importVars, streamVars, jsonlVars, detectVars, dataVars, resolveVars, mediaRefsVars, schemaVars, bulkVars, retryVars, saveLoadVars, nestedVars, uidVars>>
notResolve == <<importVars, streamVars, jsonlVars, detectVars, dataVars, exportVars, mediaRefsVars, schemaVars, bulkVars, retryVars, saveLoadVars, nestedVars, uidVars>>
notMediaRefs == <<importVars, streamVars, jsonlVars, detectVars, dataVars, exportVars, resolveVars, schemaVars, bulkVars, retryVars, saveLoadVars, nestedVars, uidVars>>
notSchema == <<importVars, streamVars, jsonlVars, detectVars, dataVars, exportVars, resolveVars, mediaRefsVars, bulkVars, retryVars, saveLoadVars, nestedVars, uidVars>>
notBulk == <<importVars, streamVars, jsonlVars, detectVars, dataVars, exportVars, resolveVars, mediaRefsVars, schemaVars, retryVars, saveLoadVars, nestedVars, uidVars>>
notRetry == <<importVars, streamVars, jsonlVars, detectVars, dataVars, exportVars, resolveVars, mediaRefsVars, schemaVars, bulkVars, saveLoadVars, nestedVars, uidVars>>
notSaveLoad == <<importVars, streamVars, jsonlVars, detectVars, dataVars, exportVars, resolveVars, mediaRefsVars, schemaVars, bulkVars, retryVars, nestedVars, uidVars>>
notNested == <<importVars, streamVars, jsonlVars, detectVars, dataVars, exportVars, resolveVars, mediaRefsVars, schemaVars, bulkVars, retryVars, saveLoadVars, uidVars>>
notUid == <<importVars, streamVars, jsonlVars, detectVars, dataVars, exportVars, resolveVars, mediaRefsVars, schemaVars, bulkVars, retryVars, saveLoadVars, nestedVars>>

-----------------------------------------------------------------------------
(* Bounds of the model.                                                    *)

MaxEntities == 2      \* entities in the export, over all content types
MaxMedia    == 1      \* files in the media manifest
TargetBase  == 10     \* ids the target instance has already handed out
MaxPages    == 3      \* largest page count the server reports
MaxPageLen  == 2      \* largest number of entities in one response

-----------------------------------------------------------------------------
(* Strings are sequences of characters where the code computes on them.    *)

UID_AUTHOR  == "api::author.author"
UID_ARTICLE == "api::article.article"
UID_PAGE    == "api::page.page"
UID_PERSON  == "api::person.person"

\* the characters of a content-type UID
Chars(uid) ==
    CASE uid = UID_AUTHOR ->
           <<"a","p","i",":",":","a","u","t","h","o","r",".","a","u","t","h","o","r">>
      [] uid = UID_ARTICLE ->
           <<"a","p","i",":",":","a","r","t","i","c","l","e",".","a","r","t","i","c","l","e">>
      [] uid = UID_PAGE ->
           <<"a","p","i",":",":","p","a","g","e",".","p","a","g","e">>
      [] uid = UID_PERSON ->
           <<"a","p","i",":",":","p","e","r","s","o","n",".","p","e","r","s","o","n">>

\* list(export_data.entities.keys()): the export's content types, in insertion order
ExportedTypes == <<UID_AUTHOR, UID_ARTICLE>>

\* metadata.schemas: the content type a relation field of `ct` points at
RelationTarget(ct) == IF ct = UID_AUTHOR THEN UID_ARTICLE ELSE UID_AUTHOR

StartsWith(s, p) == Len(s) >= Len(p) /\ SubSeq(s, 1, Len(p)) = p

EndsWith(s, p) == Len(s) >= Len(p) /\ SubSeq(s, Len(s) - Len(p) + 1, Len(s)) = p

\* index of the first occurrence of sep in s at or after position i, 0 when none
RECURSIVE Find(_, _, _)
Find(s, sep, i) ==
    IF i + Len(sep) - 1 > Len(s) THEN 0
    ELSE IF SubSeq(s, i, i + Len(sep) - 1) = sep THEN i
    ELSE Find(s, sep, i + 1)

\* str.split(sep)
RECURSIVE Split(_, _)
Split(s, sep) ==
    LET i == Find(s, sep, 1) IN
    IF i = 0 THEN <<s>>
    ELSE <<SubSeq(s, 1, i - 1)>> \o Split(SubSeq(s, i + Len(sep), Len(s)), sep)

_uid_to_endpoint(uid) ==
    LET parts == Split(uid, <<":", ":">>) IN
    IF Len(parts) = 2
    THEN LET name == Split(parts[2], <<".">>)[1] IN
         IF ~EndsWith(name, <<"s">>) THEN name \o <<"s">> ELSE name
    ELSE uid

\* str(n) for n >= 0
RECURSIVE Digits(_)
Digits(n) ==
    LET d == <<"0","1","2","3","4","5","6","7","8","9">>[(n % 10) + 1] IN
    IF n < 10 THEN <<d>> ELSE Digits(n \div 10) \o <<d>>

-----------------------------------------------------------------------------
(* JSON values, tagged so that values of different shapes compare.         *)

JNull       == [t |-> "null"]
JStr(s)     == [t |-> "str", s |-> s]
JInt(n)     == [t |-> "int", n |-> n]
JList(xs)   == [t |-> "list", items |-> xs]
\* a sub-object {"id": id, "mime": ...} (media) or {"id": id} (relation)
JObj(id, has_mime) == [t |-> "obj", id |-> id, mime |-> has_mime]
\* a field value {"data": x}
JData(x)    == [t |-> "data", data |-> x]

IsDataDict(v) == v.t = "data"

\* the list branch of update_media_references without the `"mime" in item` test
UpdateMediaItemAnyObject(item, mapping) ==
    IF item.t = "obj" /\ item.id # 0 /\ item.id \in DOMAIN mapping
    THEN [item EXCEPT !.id = mapping[item.id]]
    ELSE item

\* the new id assigned to the sub-object itself, without the copy
AssignIdInPlace(item, new_id) ==
    [updated  |-> [item EXCEPT !.id = new_id],
     argument |-> [item EXCEPT !.id = new_id]]

\* lines 201-202 and 213-214: `updated = item.copy(); updated["id"] = new_id`:
\* the sub-object put into the result, and the sub-object of the argument afterwards
AssignIdToCopy(item, new_id) ==
    [updated  |-> [item EXCEPT !.id = new_id],
     argument |-> item]

\* MediaHandler.update_media_references: one sub-object
UpdateMediaItem(item, mapping) ==
    IF item.t = "obj" /\ item.mime
    THEN IF item.id # 0 /\ item.id \in DOMAIN mapping
         THEN AssignIdToCopy(item, mapping[item.id]).updated
         ELSE item
    ELSE item

\* one sub-object of the argument after the call
ItemAfterUpdate(item, mapping) ==
    IF item.t = "obj" /\ item.mime /\ item.id # 0 /\ item.id \in DOMAIN mapping
    THEN AssignIdToCopy(item, mapping[item.id]).argument
    ELSE item

\* the dict handed to update_media_references as it is after the call: the call
\* assigns only to updated_data, updated_list and the copies of sub-objects
ArgumentAfterUpdate(data, mapping) ==
    [f \in DOMAIN data |->
        LET v == data[f] IN
        IF IsDataDict(v) /\ v.data.t = "obj" THEN JData(ItemAfterUpdate(v.data, mapping))
        ELSE IF IsDataDict(v) /\ v.data.t = "list"
        THEN JData(JList([i \in 1..Len(v.data.items) |->
                             ItemAfterUpdate(v.data.items[i], mapping)]))
        ELSE v]

\* update_media_references without the list branch of lines 205-219
update_media_references_single_only(data, mapping) ==
    [f \in DOMAIN data |->
        LET v == data[f] IN
        IF IsDataDict(v) /\ v.data.t = "obj" /\ v.data.mime
        THEN JData(UpdateMediaItem(v.data, mapping))
        ELSE v]

update_media_references(data, mapping) ==
    [f \in DOMAIN data |->
        LET v == data[f] IN
        IF IsDataDict(v)
        THEN IF v.data.t = "null" THEN v
             ELSE IF v.data.t = "obj" /\ v.data.mime
                  THEN JData(UpdateMediaItem(v.data, mapping))
             ELSE IF v.data.t = "list"
                  THEN JData(JList([i \in 1..Len(v.data.items) |->
                                       UpdateMediaItem(v.data.items[i], mapping)]))
             ELSE v
        ELSE v]

\* build_relation_payload with the branch of line 174 removed
build_relation_payload_as_lists(relations) ==
    [f \in DOMAIN relations |->
        JList([i \in 1..Len(relations[f]) |-> JInt(relations[f][i])])]

\* RelationResolver.build_relation_payload
build_relation_payload(relations) ==
    [f \in DOMAIN relations |->
        LET ids == relations[f] IN
        IF Len(ids) = 0 THEN JList(<<>>)
        ELSE IF Len(ids) = 1 THEN JInt(ids[1])
        ELSE JList([i \in 1..Len(ids) |-> JInt(ids[i])])]

-----------------------------------------------------------------------------
(* The client, as far as the importer uses it.                             *)

\* SyncClient.create: POST endpoint with the argument wrapped in {"data": ...}
ClientCreate(endpoint, data) ==
    [method |-> "POST", path |-> endpoint, json |-> [data |-> data]]

\* SyncClient.update: PUT endpoint with the argument wrapped in {"data": ...}
ClientUpdate(endpoint, data) ==
    [method |-> "PUT", path |-> endpoint, json |-> [data |-> data]]

\* MediaHandler.upload_media_file -> SyncClient.upload_file
ClientUpload(media_id) ==
    [method |-> "UPLOAD", path |-> <<"u","p","l","o","a","d">>, json |-> [file |-> media_id]]

\* a request as the log keeps it: what was sent, for which item, and the answer
Logged(req, item, outcome, new_id) ==
    [method |-> req.method, path |-> req.path, json |-> req.json,
     item |-> item, outcome |-> outcome, id |-> new_id]

-----------------------------------------------------------------------------
(* ImportResult                                                            *)

NewResult(dry_run) ==
    [success |-> FALSE, dry_run |-> dry_run,
     entities_imported |-> 0, entities_failed |-> 0, entities_skipped |-> 0,
     media_imported |-> 0, media_skipped |-> 0,
     id_mapping |-> <<>>, errors |-> <<>>, warnings |-> <<>>]

Msg(kind, ct, id) == [kind |-> kind, ct |-> ct, id |-> id]

add_error(r, msg) == [r EXCEPT !.errors = Append(@, msg)]

add_warning(r, msg) == [r EXCEPT !.warnings = Append(@, msg)]

get_entity_count == Len(entities[ExportedTypes[1]]) + Len(entities[ExportedTypes[2]])

\* the (content type, index) pairs the entity loop and the relation loop visit, in order
RECURSIVE Work(_)
Work(cts) ==
    IF cts = <<>> THEN <<>>
    ELSE [i \in 1..Len(entities[Head(cts)]) |-> <<Head(cts), i>>] \o Work(Tail(cts))

IsAvailable(ct) == \E i \in 1..Len(ExportedTypes) : ExportedTypes[i] = ct

RECURSIVE FilterAvailable(_)
FilterAvailable(cts) ==
    IF cts = <<>> THEN <<>>
    ELSE (IF IsAvailable(Head(cts)) THEN <<Head(cts)>> ELSE <<>>) \o FilterAvailable(Tail(cts))

\* options.content_types: <<>> stands for None and for the empty list, both falsy
_get_content_types_to_import ==
    IF options.content_types # <<>>
    THEN FilterAvailable(options.content_types)
    ELSE ExportedTypes

\* `if options.progress_callback: options.progress_callback(...)`: nothing happens
\* (no callback was given, or it returns), or the callback raises
CallbackRaises == BOOLEAN

\* import_data's `except Exception`: record the error and raise ImportExportError
Fail(r, kind) ==
    /\ result' = add_error(r, Msg(kind, "", 0))
    /\ pc' = "raised"


-----------------------------------------------------------------------------
(* import_data                                                             *)

\* the version of the target instance the client reports
client_api_version == "v5"

\* _validate_export_data: warnings only
_validate_export_data(r) ==
    LET r1 == IF ~StartsWith(metadata.version, <<"1", ".">>)
              THEN add_warning(r, Msg("format_version", "", 0)) ELSE r
        r2 == IF client_api_version # "" /\ metadata.strapi_version # client_api_version
              THEN add_warning(r1, Msg("version_differs", "", 0)) ELSE r1
    IN  IF get_entity_count = 0
        THEN add_warning(r2, Msg("no_entities", "", 0)) ELSE r2

\* lines 87-109: progress(0), validation, content-type filter and the two early returns
Begin ==
    /\ pc = "start"
    /\ \E raises \in CallbackRaises :
        IF raises
        THEN /\ Fail(result, "import_failed_callback")
             /\ UNCHANGED content_types_to_import
        ELSE LET r   == _validate_export_data(result)
                 cts == _get_content_types_to_import
             IN  IF r.errors # <<>> /\ ~options.dry_run
                 THEN /\ result' = [r EXCEPT !.success = FALSE]
                      /\ pc' = "returned"
                      /\ UNCHANGED content_types_to_import
                 ELSE IF cts = <<>>
                 THEN /\ result' = [add_warning(r, Msg("no_content_types", "", 0))
                                       EXCEPT !.success = TRUE]
                      /\ pc' = "returned"
                      /\ content_types_to_import' = cts
                 ELSE /\ result' = r
                      /\ pc' = "media_begin"
                      /\ content_types_to_import' = cts
    /\ UNCHANGED <<entities, media, metadata, options, media_dir, media_id_mapping,
                   k, target, uploads, requests, logged>>
    /\ UNCHANGED notImport

\* lines 111-117 and 346-361: progress(20) and the checks before the media loop
MediaBegin ==
    /\ pc = "media_begin"
    /\ IF options.import_media /\ media # <<>>
       THEN \E raises \in CallbackRaises :
            IF raises
            THEN /\ Fail(result, "import_failed_callback")
                 /\ UNCHANGED <<k, logged>>
            ELSE IF media_dir = "none"
            THEN /\ logged' = Append(logged, Msg("media_dir_not_specified", "", 0))
                 /\ pc' = "entities_begin"
                 /\ UNCHANGED <<result, k>>
            ELSE IF media_dir = "missing"
            THEN /\ result' = add_error(result, Msg("media_dir_not_found", "", 0))
                 /\ pc' = "entities_begin"
                 /\ UNCHANGED <<k, logged>>
            ELSE /\ pc' = "media"
                 /\ k' = 1
                 /\ UNCHANGED <<result, logged>>
       ELSE /\ pc' = "entities_begin"
            /\ UNCHANGED <<result, k, logged>>
    /\ UNCHANGED <<entities, media, metadata, options, media_dir, content_types_to_import,
                   media_id_mapping, target, uploads, requests>>
    /\ UNCHANGED notImport

\* lines 386-388 with the count of line 388 left out
OnUploadErrorUncounted(r, exported_media) ==
    add_warning(r, Msg("media_failed", "", exported_media))

\* lines 386-388: the except clause of the media loop
OnUploadError(r, exported_media) ==
    [add_warning(r, Msg("media_failed", "", exported_media))
        EXCEPT !.media_skipped = @ + 1]

\* lines 363-391: one iteration of the media loop
ImportMediaFile ==
    /\ pc = "media"
    /\ LET exported_media == media[k]
           new_id == TargetBase + uploads + 1
       IN
       \/ /\ options.dry_run
          /\ result' = [result EXCEPT !.media_imported = @ + 1]
          /\ UNCHANGED <<media_id_mapping, uploads, requests>>
       \/ \* file_path.exists() is false
          /\ ~options.dry_run
          /\ result' = [add_warning(result, Msg("media_not_found", "", exported_media))
                           EXCEPT !.media_skipped = @ + 1]
          /\ UNCHANGED <<media_id_mapping, uploads, requests>>
       \/ \* the upload succeeds
          /\ ~options.dry_run
          /\ requests' = Append(requests,
                 Logged(ClientUpload(exported_media), <<"", exported_media>>, "ok", new_id))
          /\ uploads' = uploads + 1
          /\ media_id_mapping' = (exported_media :> new_id) @@ media_id_mapping
          /\ result' = [result EXCEPT !.media_imported = @ + 1]
       \/ \* the upload raises
          /\ ~options.dry_run
          /\ requests' = Append(requests,
                 Logged(ClientUpload(exported_media), <<"", exported_media>>, "error", 0))
          /\ result' = OnUploadError(result, exported_media)
          /\ UNCHANGED <<media_id_mapping, uploads>>
    /\ IF k = Len(media)
       THEN pc' = "entities_begin" /\ k' = k
       ELSE pc' = pc /\ k' = k + 1
    /\ UNCHANGED <<entities, media, metadata, options, media_dir, content_types_to_import,
                   target, logged>>
    /\ UNCHANGED notImport

\* lines 119-121: progress(40), then the entity loop starts
EntitiesBegin ==
    /\ pc = "entities_begin"
    /\ \E raises \in CallbackRaises :
        IF raises
        THEN /\ Fail(result, "import_failed_callback")
             /\ UNCHANGED k
        ELSE /\ pc' = IF Work(content_types_to_import) = <<>>
                      THEN "relations_begin" ELSE "entities"
             /\ k' = 1
             /\ UNCHANGED result
    /\ UNCHANGED <<entities, media, metadata, options, media_dir, content_types_to_import,
                   media_id_mapping, target, uploads, requests, logged>>
    /\ UNCHANGED notImport

\* result.id_mapping[content_type][old_id] = new_id, creating the inner dict when absent
SetMappingFresh(m, ct, old_id, new_id) ==
    (ct :> (old_id :> new_id)) @@ m

SetMapping(m, ct, old_id, new_id) ==
    LET inner == IF ct \in DOMAIN m THEN m[ct] ELSE <<>>
    IN  (ct :> ((old_id :> new_id) @@ inner)) @@ m

\* the outcomes of client.create: an entity, a response with no data, or an exception
CreateOutcomes == {"ok", "nodata", "validation", "error"}

\* lines 218-224: the two nested for loops go on to the next entity, or end
EntityLoopBreaks ==
    pc' = "relations_begin" /\ k' = k

EntityLoopNext ==
    IF k = Len(Work(content_types_to_import))
    THEN pc' = "relations_begin" /\ k' = k
    ELSE pc' = pc /\ k' = k + 1

\* lines 233-236: a dry run counts the entity and creates nothing
DryRunEntityUncounted(r) == r

DryRunEntity(r) == [r EXCEPT !.entities_imported = @ + 1]

\* lines 249-255: both except clauses record the error and count the failure
OnCreateErrorUncounted(r, kind, content_type, id) ==
    add_error(r, Msg(kind, content_type, id))

OnCreateErrorUnrecorded(r, kind, content_type, id) ==
    [r EXCEPT !.entities_failed = @ + 1]

OnCreateError(r, kind, content_type, id) ==
    [add_error(r, Msg(kind, content_type, id)) EXCEPT !.entities_failed = @ + 1]

\* lines 224-255: one iteration of the entity loop
ImportEntity ==
    /\ pc = "entities"
    /\ LET content_type == Work(content_types_to_import)[k][1]
           entity       == entities[content_type][Work(content_types_to_import)[k][2]]
           endpoint     == _uid_to_endpoint(Chars(content_type))
           entity_data  == IF media_id_mapping # <<>>
                           THEN update_media_references(entity.data, media_id_mapping)
                           ELSE entity.data
           new_id       == TargetBase + target[content_type] + 1
           request      == ClientCreate(endpoint, [data |-> entity_data])
           item         == <<content_type, entity.id>>
       IN
       IF options.dry_run
       THEN /\ result' = DryRunEntity(result)
            /\ UNCHANGED <<target, requests>>
       ELSE \E outcome \in CreateOutcomes :
            /\ requests' = Append(requests,
                   Logged(request, item, outcome, IF outcome = "ok" THEN new_id ELSE 0))
            /\ target' = IF outcome = "ok"
                         THEN [target EXCEPT ![content_type] = @ + 1] ELSE target
            /\ result' =
                 CASE outcome = "ok" ->
                        [result EXCEPT
                            !.id_mapping = SetMapping(@, content_type, entity.id, new_id),
                            !.entities_imported = @ + 1]
                   [] outcome = "nodata" -> result
                   [] outcome = "validation" ->
                        OnCreateError(result, "validation", content_type, entity.id)
                   [] outcome = "error" ->
                        OnCreateError(result, "failed", content_type, entity.id)
    /\ entities' =
          IF media_id_mapping # <<>>
          THEN [entities EXCEPT
                   ![Work(content_types_to_import)[k][1]][Work(content_types_to_import)[k][2]].data =
                       ArgumentAfterUpdate(@, media_id_mapping)]
          ELSE entities
    /\ EntityLoopNext
    /\ UNCHANGED <<media, metadata, options, media_dir, content_types_to_import,
                   media_id_mapping, uploads, logged>>
    /\ UNCHANGED notImport

\* lines 131-134 without the test of options.skip_relations
RelationsBeginIgnoringSkip ==
    /\ pc = "relations_begin"
    /\ \E raises \in CallbackRaises :
         IF raises
         THEN /\ Fail(result, "import_failed_callback")
              /\ UNCHANGED k
         ELSE /\ pc' = IF Work(content_types_to_import) = <<>>
                       THEN "finish" ELSE "relations"
              /\ k' = 1
              /\ UNCHANGED result
    /\ UNCHANGED <<entities, media, metadata, options, media_dir, content_types_to_import,
                   media_id_mapping, target, uploads, requests, logged>>
    /\ UNCHANGED notImport

\* lines 131-134: skip_relations, progress(60), then the relation loop starts
RelationsBegin ==
    /\ pc = "relations_begin"
    /\ IF ~options.skip_relations
       THEN \E raises \in CallbackRaises :
            IF raises
            THEN /\ Fail(result, "import_failed_callback")
                 /\ UNCHANGED k
            ELSE /\ pc' = IF Work(content_types_to_import) = <<>>
                          THEN "finish" ELSE "relations"
                 /\ k' = 1
                 /\ UNCHANGED result
       ELSE /\ pc' = "finish"
            /\ UNCHANGED <<result, k>>
    /\ UNCHANGED <<entities, media, metadata, options, media_dir, content_types_to_import,
                   media_id_mapping, target, uploads, requests, logged>>
    /\ UNCHANGED notImport

\* lines 290-293: logger.warning for an entity that is not in the id mapping
LogNotInMappingSilent(l, content_type, old_id) == l

LogNotInMapping(l, content_type, old_id) ==
    Append(l, Msg("not_in_id_mapping", content_type, old_id))

\* lines 279-326: one iteration of the relation loop
ImportRelations ==
    /\ pc = "relations"
    /\ LET content_type == Work(content_types_to_import)[k][1]
           entity       == entities[content_type][Work(content_types_to_import)[k][2]]
           endpoint     == _uid_to_endpoint(Chars(content_type))
           old_id       == entity.id
           item         == <<content_type, entity.id>>
       IN
       IF DOMAIN entity.relations = {}
       THEN UNCHANGED <<result, requests, logged>>
       ELSE IF content_type \notin DOMAIN result.id_mapping
       THEN UNCHANGED <<result, requests, logged>>
       ELSE IF old_id \notin DOMAIN result.id_mapping[content_type]
       THEN /\ logged' = LogNotInMapping(logged, content_type, old_id)
            /\ UNCHANGED <<result, requests>>
       ELSE LET new_id == result.id_mapping[content_type][old_id]
                \* lines 305-309: the old ids are copied as they are
                resolved_relations == [f \in DOMAIN entity.relations |-> entity.relations[f]]
                relation_payload   == build_relation_payload(resolved_relations)
                request == ClientUpdate(endpoint \o <<"/">> \o Digits(new_id),
                                        [data |-> relation_payload])
            IN  IF options.dry_run
                THEN UNCHANGED <<result, requests, logged>>
                ELSE IF DOMAIN relation_payload = {}
                THEN UNCHANGED <<result, requests, logged>>
                ELSE \E outcome \in {"ok", "error"} :
                     /\ requests' = Append(requests, Logged(request, item, outcome, new_id))
                     /\ result' = IF outcome = "ok" THEN result
                                  ELSE add_warning(result,
                                           Msg("relations_failed", content_type, new_id))
                     /\ UNCHANGED logged
    /\ IF k = Len(Work(content_types_to_import))
       THEN pc' = "finish" /\ k' = k
       ELSE pc' = pc /\ k' = k + 1
    /\ UNCHANGED <<entities, media, metadata, options, media_dir, content_types_to_import,
                   media_id_mapping, target, uploads>>
    /\ UNCHANGED notImport

\* line 146
ComputeSuccessStrict(r) == r.entities_failed = 0 /\ r.media_skipped = 0

ComputeSuccess(r) == r.entities_failed = 0

\* lines 143-148: progress(100), success, return
Finish ==
    /\ pc = "finish"
    /\ \E raises \in CallbackRaises :
        IF raises
        THEN Fail(result, "import_failed_callback")
        ELSE /\ result' = [result EXCEPT !.success = ComputeSuccess(result)]
             /\ pc' = "returned"
    /\ UNCHANGED <<entities, media, metadata, options, media_dir, content_types_to_import,
                   media_id_mapping, k, target, uploads, requests, logged>>
    /\ UNCHANGED notImport

-----------------------------------------------------------------------------
(* The exports and options import_data is run on.                          *)

\* the `relations` of an exported entity: none, or one field holding old ids
RelationOptions == {<<>>} \cup {[f \in {"related"} |-> ids] : ids \in {<<1, 2>>}}

\* the `data` of an exported entity: a plain attribute, a single media field and
\* a list field holding two media objects and an object that is not media
DataOptions ==
    {[title |-> JStr("t"),
      cover |-> JData(JObj(1, TRUE)),
      gallery |-> JData(JList(<<JObj(1, TRUE), JObj(2, TRUE), JObj(1, FALSE)>>))]}

\* the lists of n exported entities; the source instance numbered them 1..n
EntityLists(n) ==
    {[i \in 1..n |-> [id |-> i, data |-> d[i], relations |-> r[i]]] :
        d \in [1..n -> DataOptions], r \in [1..n -> RelationOptions]}

FilterOptions == {<<>>, <<UID_AUTHOR>>, <<UID_ARTICLE, UID_AUTHOR>>, <<UID_PAGE>>}

MetadataOptions ==
    {[version |-> <<"1", ".", "0">>, strapi_version |-> "v5"],
     [version |-> <<"2", ".", "0">>, strapi_version |-> "v4"]}

\* the other machine's variables, held still while one machine runs
ImportIdle ==
    /\ entities = <<>> /\ media = <<>> /\ metadata = <<>> /\ options = <<>>
    /\ media_dir = "none" /\ result = <<>> /\ content_types_to_import = <<>>
    /\ media_id_mapping = <<>> /\ pc = "idle" /\ k = 0 /\ target = <<>>
    /\ uploads = 0 /\ requests = <<>> /\ logged = <<>>

StreamIdle ==
    /\ page_sizes = <<>> /\ page_count = 0 /\ current_page = 0 /\ pos = 0
    /\ gen_pc = "idle" /\ page_size = 0 /\ gen_exc = "" /\ fetched = <<>> /\ yielded = <<>>

\* Python's None, and a marker for "no call has returned yet"
None  == [t |-> "None"]
Unset == [t |-> "unset"]

JsonlIdle ==
    /\ file = <<>> /\ w_pc = "idle" /\ _entity_count = 0 /\ _content_type_counts = <<>>
    /\ written = <<>>
    /\ r_pc = "idle" /\ r_pos = 0 /\ _metadata = None /\ _media_manifest = None
    /\ _current_line = 0 /\ it_pc = "none" /\ consumed = <<>> /\ format_errors = {}
    /\ warned = {} /\ manifest_ret = Unset /\ metadata_ret = Unset /\ metadata_reads = {}

DetectIdle ==
    /\ config_api_version = "idle" /\ _api_version = None /\ detect_ret = Unset
    /\ responses = <<>>

DataIdle ==
    /\ d_data = <<>> /\ d_relations = Unset /\ d_media_ids = Unset
    /\ d_cleaned = Unset

ExportIdle ==
    /\ x_source = <<>> /\ x_server = <<>> /\ x_args = <<>> /\ export_data = <<>>
    /\ x_pc = "idle" /\ x_idx = 0 /\ x_exc = ""

ResolveIdle ==
    /\ rel_relations = <<>> /\ rel_id_mapping = <<>> /\ rel_content_type = ""
    /\ rel_resolved = Unset /\ rel_warnings = <<>> /\ rel_payload = Unset

MediaRefsIdle ==
    /\ um_data = <<>> /\ um_mapping = <<>> /\ um_ret = Unset

SchemaIdle ==
    /\ si_schema = <<>> /\ si_ret = Unset

BulkIdle ==
    /\ b_op = "idle" /\ b_items = <<>> /\ batch_size = 0 /\ max_concurrency = 0
    /\ b_pc = "idle" /\ batch_start = 0 /\ b_successes = <<>> /\ b_failures = <<>>
    /\ completed = 0 /\ success_count = 0 /\ b_result = Unset /\ tasks = <<>>
    /\ semaphore = 0 /\ progress_calls = <<>>

RetryIdle ==
    /\ retry_config = <<>> /\ attempts = <<>> /\ rq_pc = "idle" /\ rq_exc = ""

SaveLoadIdle ==
    /\ sl_export_data = <<>> /\ sl_file = <<>> /\ sl_loaded = <<>>
    /\ sl_pc = "idle" /\ sl_exc = ""

NestedIdle ==
    /\ xr_data = <<>> /\ xr_cache = "" /\ xr_stack = <<>> /\ xr_ret = <<>>
    /\ xr_pc = "idle"

UidIdle ==
    /\ ue_uid = <<>> /\ ue_importer = Unset /\ ue_exporter = Unset /\ ue_utils = Unset

\* every component but the one that runs
IdleButImport == StreamIdle /\ JsonlIdle /\ DetectIdle /\ DataIdle /\ ExportIdle /\ ResolveIdle /\ MediaRefsIdle /\ SchemaIdle /\ BulkIdle /\ RetryIdle /\ SaveLoadIdle /\ NestedIdle /\ UidIdle
IdleButStream == ImportIdle /\ JsonlIdle /\ DetectIdle /\ DataIdle /\ ExportIdle /\ ResolveIdle /\ MediaRefsIdle /\ SchemaIdle /\ BulkIdle /\ RetryIdle /\ SaveLoadIdle /\ NestedIdle /\ UidIdle
IdleButJsonl  == ImportIdle /\ StreamIdle /\ DetectIdle /\ DataIdle /\ ExportIdle /\ ResolveIdle /\ MediaRefsIdle /\ SchemaIdle /\ BulkIdle /\ RetryIdle /\ SaveLoadIdle /\ NestedIdle /\ UidIdle
IdleButDetect == ImportIdle /\ StreamIdle /\ JsonlIdle /\ DataIdle /\ ExportIdle /\ ResolveIdle /\ MediaRefsIdle /\ SchemaIdle /\ BulkIdle /\ RetryIdle /\ SaveLoadIdle /\ NestedIdle /\ UidIdle
IdleButData   == ImportIdle /\ StreamIdle /\ JsonlIdle /\ DetectIdle /\ ExportIdle /\ ResolveIdle /\ MediaRefsIdle /\ SchemaIdle /\ BulkIdle /\ RetryIdle /\ SaveLoadIdle /\ NestedIdle /\ UidIdle
IdleButExport == ImportIdle /\ StreamIdle /\ JsonlIdle /\ DetectIdle /\ DataIdle /\ ResolveIdle /\ MediaRefsIdle /\ SchemaIdle /\ BulkIdle /\ RetryIdle /\ SaveLoadIdle /\ NestedIdle /\ UidIdle
IdleButResolve == ImportIdle /\ StreamIdle /\ JsonlIdle /\ DetectIdle /\ DataIdle /\ ExportIdle /\ MediaRefsIdle /\ SchemaIdle /\ BulkIdle /\ RetryIdle /\ SaveLoadIdle /\ NestedIdle /\ UidIdle
IdleButMediaRefs == ImportIdle /\ StreamIdle /\ JsonlIdle /\ DetectIdle /\ DataIdle /\ ExportIdle /\ ResolveIdle /\ SchemaIdle /\ BulkIdle /\ RetryIdle /\ SaveLoadIdle /\ NestedIdle /\ UidIdle
IdleButSchema == ImportIdle /\ StreamIdle /\ JsonlIdle /\ DetectIdle /\ DataIdle /\ ExportIdle /\ ResolveIdle /\ MediaRefsIdle /\ BulkIdle /\ RetryIdle /\ SaveLoadIdle /\ NestedIdle /\ UidIdle
IdleButBulk == ImportIdle /\ StreamIdle /\ JsonlIdle /\ DetectIdle /\ DataIdle /\ ExportIdle /\ ResolveIdle /\ MediaRefsIdle /\ SchemaIdle /\ RetryIdle /\ SaveLoadIdle /\ NestedIdle /\ UidIdle
IdleButRetry == ImportIdle /\ StreamIdle /\ JsonlIdle /\ DetectIdle /\ DataIdle /\ ExportIdle /\ ResolveIdle /\ MediaRefsIdle /\ SchemaIdle /\ BulkIdle /\ SaveLoadIdle /\ NestedIdle /\ UidIdle
IdleButSaveLoad == ImportIdle /\ StreamIdle /\ JsonlIdle /\ DetectIdle /\ DataIdle /\ ExportIdle /\ ResolveIdle /\ MediaRefsIdle /\ SchemaIdle /\ BulkIdle /\ RetryIdle /\ NestedIdle /\ UidIdle
IdleButNested == ImportIdle /\ StreamIdle /\ JsonlIdle /\ DetectIdle /\ DataIdle /\ ExportIdle /\ ResolveIdle /\ MediaRefsIdle /\ SchemaIdle /\ BulkIdle /\ RetryIdle /\ SaveLoadIdle /\ UidIdle
IdleButUid == ImportIdle /\ StreamIdle /\ JsonlIdle /\ DetectIdle /\ DataIdle /\ ExportIdle /\ ResolveIdle /\ MediaRefsIdle /\ SchemaIdle /\ BulkIdle /\ RetryIdle /\ SaveLoadIdle /\ NestedIdle

InitImport ==
    /\ \E na \in 0..MaxEntities : \E nb \in 0..(MaxEntities - na) :
       \E ea \in EntityLists(na), eb \in EntityLists(nb) :
          entities = (UID_AUTHOR :> ea) @@ (UID_ARTICLE :> eb)
    /\ \E n \in 0..MaxMedia : media = [i \in 1..n |-> i]
    /\ metadata \in MetadataOptions
    /\ options \in [dry_run : BOOLEAN, skip_relations : BOOLEAN, import_media : BOOLEAN,
                    content_types : FilterOptions]
    /\ media_dir \in {"none", "missing", "exists"}
    \* media_dir is read only when the media pass runs
    /\ (~options.import_media \/ media = <<>>) => media_dir = "none"
    /\ result = NewResult(options.dry_run)
    /\ content_types_to_import = <<>>
    /\ media_id_mapping = <<>>
    /\ pc = "start"
    /\ k = 1
    /\ target = (UID_AUTHOR :> 0) @@ (UID_ARTICLE :> 0)
    /\ uploads = 0
    /\ requests = <<>>
    /\ logged = <<>>
    /\ IdleButImport

NextImport ==
    \/ Begin
    \/ MediaBegin
    \/ ImportMediaFile
    \/ EntitiesBegin
    \/ ImportEntity
    \/ RelationsBegin
    \/ ImportRelations
    \/ Finish

vars == <<importVars, streamVars, jsonlVars, detectVars, dataVars, exportVars, resolveVars, mediaRefsVars, schemaVars, bulkVars, retryVars, saveLoadVars, nestedVars, uidVars>>

SpecImport == InitImport /\ [][NextImport]_vars

\* the same runs of import_data; the properties of the media pass and of what the
\* requests carry are checked on them in a run of their own
SpecImportMedia == InitImport /\ [][NextImport]_vars

-----------------------------------------------------------------------------
(* Properties of import_data.                                              *)

IsCreate(r) == r.method = "POST"
IsUpdate(r) == r.method = "PUT"
IsUpload(r) == r.method = "UPLOAD"
Raised(r)   == r.outcome \in {"validation", "error"}

Creates == SelectSeq(requests, IsCreate)
Updates == SelectSeq(requests, IsUpdate)
FailedCreates == SelectSeq(Creates, Raised)

Items(reqs) == [i \in 1..Len(reqs) |-> reqs[i].item]

\* the entity an item <<content type, old id>> names (old ids are list positions)
EntityOf(item) == entities[item[1]][item[2]]

WorkItems ==
    LET w == Work(content_types_to_import)
    IN  [i \in 1..Len(w) |-> <<w[i][1], entities[w[i][1]][w[i][2]].id>>]

InMapping(ct, old_id) ==
    ct \in DOMAIN result.id_mapping /\ old_id \in DOMAIN result.id_mapping[ct]

\* the ids a relation payload value carries
PayloadIds(v) ==
    IF v.t = "int" THEN {v.n} ELSE {v.items[i].n : i \in 1..Len(v.items)}

\* the relation payload of an update request: the body is {"data": argument}
\* and the importer's argument is {"data": payload}
PayloadOf(r) == r.json.data.data

AfterEntityPass == pc \in {"relations_begin", "relations", "finish", "returned"}

\* C1: in every update call for an entity A, each relation field carries, for each
\* referenced old id b of an exported entity B whose create succeeded, the new id
\* id_mapping[B's content type][b], and not b itself.
C1_PayloadCarriesNewIds ==
    \A i \in 1..Len(requests) :
        IsUpdate(requests[i]) =>
            LET a == EntityOf(requests[i].item)
                b_type == RelationTarget(requests[i].item[1])
            IN  \A f \in DOMAIN a.relations :
                \A j \in 1..Len(a.relations[f]) :
                    LET b == a.relations[f][j] IN
                    InMapping(b_type, b) =>
                        /\ result.id_mapping[b_type][b] \in PayloadIds(PayloadOf(requests[i])[f])
                        /\ b \notin PayloadIds(PayloadOf(requests[i])[f])

\* C2: once a relation update has been issued, the create of every entity of the
\* selected content types has completed, and no create follows an update.
C2_UpdatesAfterAllCreates ==
    /\ \A i, j \in 1..Len(requests) :
          (IsUpdate(requests[i]) /\ IsCreate(requests[j])) => j < i
    /\ Updates # <<>> => Items(Creates) = WorkItems
    /\ pc = "relations" =>
          \A i \in 1..Len(requests) :
              (IsCreate(requests[i]) /\ requests[i].outcome = "ok") =>
                  /\ InMapping(requests[i].item[1], requests[i].item[2])
                  /\ result.id_mapping[requests[i].item[1]][requests[i].item[2]]
                        = requests[i].id

C2_Witness ==
    /\ Len(Updates) >= 1
    /\ Len(Creates) >= 2
    /\ Creates[1].item[1] # Creates[2].item[1]

C4_DryRunIssuesNoCalls ==
    options.dry_run =>
        /\ requests = <<>>
        /\ pc = "returned" =>
              /\ result.entities_imported = Len(WorkItems)
              /\ (options.import_media /\ media_dir = "exists" /\ content_types_to_import # <<>>)
                    => result.media_imported = Len(media)

C4_Witness ==
    /\ options.dry_run
    /\ pc = "returned"
    /\ result.entities_imported = 2
    /\ result.media_imported = 1
    /\ ~options.skip_relations
    /\ \E i \in 1..Len(WorkItems) : DOMAIN EntityOf(WorkItems[i]).relations # {}

\* C5: id_mapping[content_type][old_id] is defined exactly for the entities whose
\* create returned an entity, with the id that create returned; nothing else (media
\* pass, relation pass) adds, removes or overwrites an entry.
C5_MappingIsTheSuccessfulCreates ==
    /\ DOMAIN result.id_mapping \subseteq {ExportedTypes[i] : i \in 1..Len(ExportedTypes)}
    /\ \A ct \in DOMAIN result.id_mapping :
          \A old_id \in DOMAIN result.id_mapping[ct] :
             \E i \in 1..Len(requests) :
                /\ IsCreate(requests[i])
                /\ requests[i].item = <<ct, old_id>>
                /\ requests[i].outcome = "ok"
                /\ requests[i].id = result.id_mapping[ct][old_id]
    /\ \A i \in 1..Len(requests) :
          (IsCreate(requests[i]) /\ requests[i].outcome = "ok")
             => InMapping(requests[i].item[1], requests[i].item[2])
    /\ \A i \in 1..Len(requests) :
          (IsCreate(requests[i]) /\ requests[i].outcome # "ok")
             => ~InMapping(requests[i].item[1], requests[i].item[2])

C5_Witness ==
    /\ pc = "returned"
    /\ ~options.dry_run
    /\ Len(Creates) = 2
    /\ Creates[1].item[1] = Creates[2].item[1]
    /\ Creates[1].outcome = "ok"
    /\ Creates[2].outcome = "ok"
    /\ Len(Updates) >= 1
    /\ \E i \in 1..Len(requests) : IsUpload(requests[i])

\* C6: the returned success is entities_failed = 0, whatever the media pass skipped
\* and whatever relation updates failed.
C6_SuccessIsNoEntityFailed ==
    pc = "returned" => result.success = (result.entities_failed = 0)

C6_Witness ==
    /\ pc = "returned"
    /\ result.success
    /\ result.media_skipped > 0
    /\ \E i \in 1..Len(Updates) : Updates[i].outcome = "error"

\* the relation loop has gone past work item i
PassedByRelationLoop(i) == (pc = "relations" /\ k > i) \/ (pc \in {"finish", "returned"} /\ ~options.skip_relations)

WarnedNotInMapping(item) ==
    \E i \in 1..Len(logged) :
        logged[i] = Msg("not_in_id_mapping", item[1], item[2])

NeverLinkedNorRetried(item) ==
    /\ \A i \in 1..Len(Updates) : Updates[i].item # item
    /\ Cardinality({i \in 1..Len(Creates) : Creates[i].item = item}) = 1

\* C7 as stated: an entity with relations whose old id is absent from id_mapping
\* after its create was attempted is skipped by the relation loop with a warning,
\* gets no update call, and its create is not issued again.
C7_SkippedWithWarning ==
    \A i \in 1..Len(WorkItems) :
        (/\ ~options.dry_run
         /\ PassedByRelationLoop(i)
         /\ DOMAIN EntityOf(WorkItems[i]).relations # {}
         /\ ~InMapping(WorkItems[i][1], WorkItems[i][2]))
        => /\ WarnedNotInMapping(WorkItems[i])
           /\ NeverLinkedNorRetried(WorkItems[i])

\* C7 as the code has it: such an entity gets no update call and no second create;
\* the warning is logged exactly when its content type has an id_mapping entry,
\* that is when some other entity of that content type was created.
C7_SkippedAndWarnedIfTypeMapped ==
    LET work == WorkItems IN
    \A i \in 1..Len(work) :
        (/\ ~options.dry_run
         /\ PassedByRelationLoop(i)
         /\ DOMAIN EntityOf(work[i]).relations # {}
         /\ ~InMapping(work[i][1], work[i][2]))
        => /\ WarnedNotInMapping(work[i])
                <=> work[i][1] \in DOMAIN result.id_mapping
           /\ NeverLinkedNorRetried(work[i])

C7_Witness ==
    /\ pc = "returned"
    /\ \E i \in 1..Len(WorkItems) :
          /\ DOMAIN EntityOf(WorkItems[i]).relations # {}
          /\ ~InMapping(WorkItems[i][1], WorkItems[i][2])
          /\ WarnedNotInMapping(WorkItems[i])
          /\ \E j \in 1..Len(Creates) : Creates[j].item = WorkItems[i] /\ Raised(Creates[j])

\* something failed during the run: a request raised, a media file was missing,
\* the media directory was missing, or an exception reached import_data's handler
FailureOccurred ==
    \/ \E i \in 1..Len(requests) : Raised(requests[i])
    \/ result.media_skipped > 0
    \/ result.errors # <<>>
    \/ pc = "raised"

\* C8 as stated: every run in which a failure occurs ends by returning an
\* ImportResult with success = false.
C8_FailureReturnsUnsuccessfulResult ==
    (pc \in {"returned", "raised"} /\ FailureOccurred)
        => (pc = "returned" /\ ~result.success)

\* C8 as the code has it: a run in which an entity create failed returns a result
\* with success = false, an error for each failed create and the id_mapping entry
\* of every create that succeeded; a run that raises leaves success false and an
\* error in the result; every other failure is recorded as a warning or an error
\* and leaves success to entities_failed = 0.
C8_FailedCreatesReturnUnsuccessfulResult ==
    /\ (pc = "returned" /\ FailedCreates # <<>>) =>
          /\ ~result.success
          /\ \A i \in 1..Len(FailedCreates) :
                \E j \in 1..Len(result.errors) :
                    <<result.errors[j].ct, result.errors[j].id>> = FailedCreates[i].item
          /\ \A i \in 1..Len(Creates) :
                Creates[i].outcome = "ok" =>
                    /\ InMapping(Creates[i].item[1], Creates[i].item[2])
                    /\ result.id_mapping[Creates[i].item[1]][Creates[i].item[2]] = Creates[i].id
    /\ pc = "raised" => (~result.success /\ result.errors # <<>>)
    /\ (pc = "returned" /\ FailedCreates = <<>>) => result.success
    /\ \A i \in 1..Len(requests) :
          (Raised(requests[i]) /\ ~IsCreate(requests[i])) =>
              \E j \in 1..Len(result.warnings) :
                  result.warnings[j].kind \in {"media_failed", "relations_failed"}

C8_Witness ==
    /\ pc = "returned"
    /\ ~result.success
    /\ Len(FailedCreates) = 1
    /\ \E i \in 1..Len(Creates) : Creates[i].outcome = "ok"
    /\ result.id_mapping # <<>>

\* the data of an entity as the entity pass sends it: its media references
\* rewritten with the media id mapping, which is complete when the entity pass runs
RewrittenData(entity) ==
    IF media_id_mapping # <<>> THEN update_media_references(entity.data, media_id_mapping)
    ELSE entity.data

\* C26: the JSON body of every create request is {"data": the entity's rewritten
\* data} and the body of every update request is {"data": the relation payload}:
\* the payload is wrapped in `data` once.
C26_PayloadWrappedOnce ==
    \A i \in 1..Len(requests) :
        LET r == requests[i] IN
        /\ IsCreate(r) => r.json = [data |-> RewrittenData(EntityOf(r.item))]
        /\ IsUpdate(r) =>
              r.json = [data |-> build_relation_payload(EntityOf(r.item).relations)]

\* the media loop of _import_media was entered (dry_run false, media_dir exists)
\* and has gone through all of the manifest
MediaPassDone ==
    /\ ~options.dry_run /\ options.import_media /\ media # <<>> /\ media_dir = "exists"
    /\ content_types_to_import # <<>>
    /\ pc \in {"entities_begin", "entities", "relations_begin", "relations",
               "finish", "returned"}

SentItem(item, sent, mapping) ==
    IF item.t = "obj" /\ item.mime /\ item.id \in DOMAIN mapping
    THEN sent.t = "obj" /\ sent.mime /\ sent.id = mapping[item.id]
    ELSE sent = item

\* C33: no upload follows a create (the media pass is over before the first
\* create), and the data sent by each create has the fields of the exported
\* entity's data, with the new id in every media sub-object whose old id is in the
\* media map and everything else as exported; with an empty map it is entity.data.
C33_CreatesCarryNewMediaIds ==
    /\ pc = "media" => \A i \in 1..Len(requests) : ~IsCreate(requests[i])
    /\ \A i \in 1..Len(requests) :
          IsCreate(requests[i]) =>
             LET exported == EntityOf(requests[i].item).data
                 sent     == requests[i].json.data.data
             IN  /\ \A j \in (i + 1)..Len(requests) : ~IsUpload(requests[j])
                 /\ DOMAIN sent = DOMAIN exported
                 /\ media_id_mapping = <<>> => sent = exported
                 /\ \A f \in DOMAIN exported :
                       IF IsDataDict(exported[f]) /\ exported[f].data.t = "obj"
                       THEN /\ IsDataDict(sent[f])
                            /\ SentItem(exported[f].data, sent[f].data, media_id_mapping)
                       ELSE IF IsDataDict(exported[f]) /\ exported[f].data.t = "list"
                       THEN /\ IsDataDict(sent[f]) /\ sent[f].data.t = "list"
                            /\ Len(sent[f].data.items) = Len(exported[f].data.items)
                            /\ \A n \in 1..Len(exported[f].data.items) :
                                  SentItem(exported[f].data.items[n],
                                           sent[f].data.items[n], media_id_mapping)
                       ELSE sent[f] = exported[f]

C33_Witness ==
    /\ pc = "returned"
    /\ media_id_mapping # <<>>
    /\ \E i \in 1..Len(requests) :
          /\ IsCreate(requests[i])
          /\ requests[i].json.data.data.cover.data.id = media_id_mapping[1]
          /\ requests[i].json.data.data.gallery.data.items[1].id = media_id_mapping[1]
          /\ requests[i].json.data.data.gallery.data.items[2].id = 2
          /\ requests[i].json.data.data.gallery.data.items[3].id = 1

\* C37: no step of import_data changes its export_data argument: the entity
\* lists, each entity's data and relations, and the media manifest stay as they
\* were handed in, also when media ids are rewritten for the create requests.
C37_ExportDataNotMutated ==
    [][entities' = entities /\ media' = media /\ metadata' = metadata]_vars

C37_Witness ==
    /\ pc = "returned"
    /\ result.success
    /\ \E i \in 1..Len(requests) :
          /\ IsCreate(requests[i])
          /\ requests[i].json.data.data # EntityOf(requests[i].item).data
    /\ \E i \in 1..Len(requests) : IsUpdate(requests[i])

\* C38: when import_data has returned from a run that is not a dry run, every
\* entity of the content types it imported is counted once: entities_imported +
\* entities_failed + entities_skipped is the number of those entities.
C38_EveryEntityCountedOnce ==
    (pc = "returned" /\ ~options.dry_run) =>
        result.entities_imported + result.entities_failed + result.entities_skipped
            = Len(Work(content_types_to_import))

\* the endpoint of each content type of the export
EndpointOf == [ct \in {UID_AUTHOR, UID_ARTICLE} |-> _uid_to_endpoint(Chars(ct))]

-----------------------------------------------------------------------------
(* stream_entities: a generator, resumed by its caller's next().           *)

\* page_count when the response carries no meta.pagination
NoMeta == -1

\* the generator is abandoned after this many fetches
FetchCap == MaxPages + 2

\* the caller's next(): starts the generator (lines 44-48) or resumes it after a yield
CallNext ==
    /\ gen_pc \in {"created", "suspended"}
    /\ IF gen_pc = "created"
       THEN /\ current_page' = 1
            /\ gen_pc' = "fetch"
            /\ UNCHANGED pos
       ELSE /\ gen_pc' = "yield_from"
            /\ UNCHANGED <<current_page, pos>>
    /\ UNCHANGED <<page_sizes, page_count, page_size, gen_exc, fetched, yielded>>
    /\ UNCHANGED notStream

\* line 52, query.paginate(page=current_page, page_size=page_size): StrapiQuery is not
\* part of the sources at hand.  PagePagination rejects a page_size below 1 with
\* pydantic's ValidationError (test_pagination.py), so with such a page_size
\* paginate either raises that error or hands a query on to get_many.
PaginateOutcomes == IF page_size >= 1 THEN {"ok"} ELSE {"ok", "pydantic.ValidationError"}

\* line 52 raising: the exception leaves the generator, which is finished by it
PaginateRaises ==
    /\ gen_pc = "fetch"
    /\ \E o \in PaginateOutcomes \ {"ok"} :
          /\ gen_exc' = o
          /\ gen_pc' = "raised"
    /\ UNCHANGED <<page_sizes, page_count, current_page, pos, page_size, fetched, yielded>>
    /\ UNCHANGED notStream

\* lines 52-55: response = client.get_many(endpoint, query.paginate(page=current_page))
FetchPage ==
    /\ gen_pc = "fetch"
    /\ "ok" \in PaginateOutcomes
    /\ Len(fetched) < FetchCap
    /\ fetched' = Append(fetched, current_page)
    /\ pos' = 0
    /\ gen_pc' = "yield_from"
    /\ UNCHANGED <<page_sizes, page_count, current_page, page_size, gen_exc, yielded>>
    /\ UNCHANGED notStream

\* a generator that requests the next page while the caller still holds the last
\* entity of the current one
YieldEntityFetchingAhead ==
    /\ gen_pc = "yield_from"
    /\ IF pos < page_sizes[current_page]
       THEN /\ yielded' = Append(yielded, <<current_page, pos + 1>>)
            /\ pos' = pos + 1
            /\ gen_pc' = "suspended"
            /\ fetched' = IF pos + 1 = page_sizes[current_page]
                          THEN Append(fetched, current_page + 1) ELSE fetched
       ELSE /\ gen_pc' = "check"
            /\ UNCHANGED <<yielded, pos, fetched>>
    /\ UNCHANGED <<page_sizes, page_count, current_page, page_size, gen_exc>>
    /\ UNCHANGED notStream

\* line 58: yield from response.data, one entity and a suspension per step
YieldEntity ==
    /\ gen_pc = "yield_from"
    /\ IF pos < page_sizes[current_page]
       THEN /\ yielded' = Append(yielded, <<current_page, pos + 1>>)
            /\ pos' = pos + 1
            /\ gen_pc' = "suspended"
       ELSE /\ gen_pc' = "check"
            /\ UNCHANGED <<yielded, pos>>
    /\ UNCHANGED <<page_sizes, page_count, current_page, page_size, gen_exc, fetched>>
    /\ UNCHANGED notStream

\* lines 60-69: stop, or go on to the next page
CheckMorePages ==
    /\ gen_pc = "check"
    /\ IF page_count # NoMeta
       THEN LET total_pages == page_count IN
            IF total_pages # 0 /\ current_page >= total_pages
            THEN gen_pc' = "done" /\ UNCHANGED current_page
            ELSE gen_pc' = "fetch" /\ current_page' = current_page + 1
       ELSE gen_pc' = "done" /\ UNCHANGED current_page
    /\ UNCHANGED <<page_sizes, page_count, pos, page_size, gen_exc, fetched, yielded>>
    /\ UNCHANGED notStream

\* the default of 100 stands for every valid page_size; 0 and -5 are the sizes of
\* test_streaming.py 403-414
PageSizeOptions == {-5, 0, 100}

InitStream ==
    /\ page_sizes \in [1..FetchCap -> 0..MaxPageLen]
    /\ page_count \in {NoMeta} \cup 0..MaxPages
    \* a server that reports P pages has no entity beyond page P
    /\ page_count # NoMeta => \A p \in 1..FetchCap : p > page_count => page_sizes[p] = 0
    /\ current_page = 0
    /\ pos = 0
    /\ gen_pc = "created"
    /\ page_size \in PageSizeOptions
    /\ gen_exc = ""
    /\ fetched = <<>>
    /\ yielded = <<>>
    /\ IdleButStream

NextStream ==
    \/ CallNext
    \/ PaginateRaises
    \/ FetchPage
    \/ YieldEntity
    \/ CheckMorePages

SpecStream == InitStream /\ [][NextStream]_vars

-----------------------------------------------------------------------------
(* Properties of stream_entities.                                          *)

Max(a, b) == IF a >= b THEN a ELSE b

\* entities in pages 1..p
RECURSIVE EntitiesUpTo(_)
EntitiesUpTo(p) == IF p = 0 THEN 0 ELSE page_sizes[p] + EntitiesUpTo(p - 1)

\* the fewest pages, fetched in order from page 1, that hold n entities
RECURSIVE MinFetches(_, _)
MinFetches(n, p) ==
    IF EntitiesUpTo(p) >= n \/ p = FetchCap THEN p ELSE MinFetches(n, p + 1)

\* C9: pages are fetched in order 1, 2, ... and no page is fetched after the
\* current page has reached the reported page count P (P = 0 included); with no
\* pagination metadata only page 1 is fetched.
C9_StopsAtReportedPageCount ==
    /\ \A i \in 1..Len(fetched) : fetched[i] = i
    /\ page_count # NoMeta => Len(fetched) <= Max(page_count, 1)
    /\ page_count = NoMeta => Len(fetched) <= 1

\* C10: a page is requested only after every entity of the pages before it was
\* handed to the caller, and while the caller holds its n-th entity the pages
\* requested are the fewest that hold n entities.
C10_NoFetchAhead ==
    /\ \A i \in 1..Len(fetched) :
          i < Len(fetched) => EntitiesUpTo(fetched[i]) <= Len(yielded)
    /\ gen_pc = "created" => fetched = <<>>
    /\ gen_pc = "suspended" => Len(fetched) = MinFetches(Len(yielded), 0)

C10_Witness ==
    /\ gen_pc = "suspended"
    /\ Len(yielded) = 3
    /\ Len(fetched) = 3
    /\ page_sizes[2] = 0

\* C11: with a page_size below 1 the stream fails with the library's ValidationError
\* the first time it is advanced, and no page is ever requested from the client.
C11_BadPageSizeFailsBeforeFetch ==
    page_size < 1 =>
        /\ fetched = <<>>
        /\ gen_pc \in {"created", "fetch", "raised"}
        /\ gen_pc = "raised" => gen_exc = "ValidationError"

-----------------------------------------------------------------------------
(* The JSONL container: JSONLExportWriter and JSONLImportReader.            *)
(* A line of the file is what json.loads makes of it after strip(): a JSON *)
(* object (a mapping from keys to values), another JSON value, text that   *)
(* is not JSON, or nothing at all.                                         *)

MaxLines        == 4      \* lines a writer puts into one file
MaxForeignLines == 3      \* lines of a file that no writer produced

Obj(rec)    == [j |-> "object", rec |-> rec]
BlankLine   == [j |-> "blank"]
InvalidLine == [j |-> "invalid"]
ArrayLine   == [j |-> "array"]

\* dict.get(key, default), dict.pop(key, None) and {key: value, **rest}
Get(rec, key, default) == IF key \in DOMAIN rec THEN rec[key] ELSE default
Pop(rec, key) == [f \in DOMAIN rec \ {key} |-> rec[f]]
WithType(type, rest) == [f \in {"_type"} \cup DOMAIN rest |->
                            IF f \in DOMAIN rest THEN rest[f] ELSE type]

\* the models that are written: ExportMetadata, ExportedEntity, ExportedMediaFile
TheMetadata == [version |-> "1.0", strapi_version |-> "v5"]
EntityPool  == {[id |-> 1, content_type |-> UID_AUTHOR, data |-> [title |-> JStr("t")]],
                [id |-> 2, content_type |-> UID_ARTICLE, data |-> [title |-> JStr("t")]]}
MediaFile(id) == [id |-> id, name |-> "f", mime |-> "image/png"]
ManifestPool == {<<>>, <<MediaFile(1)>>}

\* a writer that puts each new line in front of the lines already written
_write_line_first(record) == <<Obj(record)>> \o file

\* _write_line: json.dumps(record) + "\n"
_write_line(record) == Append(file, Obj(record))

\* __enter__: open(file_path, "w") truncates the file
WriterEnter ==
    /\ w_pc = "new"
    /\ w_pc' = "open"
    /\ file' = <<>>
    /\ UNCHANGED <<_entity_count, _content_type_counts, written, r_pc, r_pos, _metadata,
                   _media_manifest, _current_line, it_pc, consumed, format_errors,
                   warned, manifest_ret, metadata_ret, metadata_reads>>
    /\ UNCHANGED notJsonl

write_metadata ==
    /\ w_pc = "open"
    /\ Len(file) < MaxLines
    /\ file' = _write_line(WithType("metadata", TheMetadata))
    /\ written' = Append(written, [op |-> "metadata", arg |-> TheMetadata])
    /\ UNCHANGED <<w_pc, _entity_count, _content_type_counts, r_pc, r_pos, _metadata,
                   _media_manifest, _current_line, it_pc, consumed, format_errors,
                   warned, manifest_ret, metadata_ret, metadata_reads>>
    /\ UNCHANGED notJsonl

write_entity ==
    /\ w_pc = "open"
    /\ Len(file) < MaxLines
    /\ \E entity \in EntityPool :
          LET ct == entity.content_type IN
          /\ file' = _write_line(WithType("entity", entity))
          /\ written' = Append(written, [op |-> "entity", arg |-> entity])
          /\ _entity_count' = _entity_count + 1
          /\ _content_type_counts' =
                [c \in DOMAIN _content_type_counts \cup {ct} |->
                    IF c = ct
                    THEN (IF ct \in DOMAIN _content_type_counts
                          THEN _content_type_counts[ct] ELSE 0) + 1
                    ELSE _content_type_counts[c]]
    /\ UNCHANGED <<w_pc, r_pc, r_pos, _metadata, _media_manifest, _current_line, it_pc,
                   consumed, format_errors, warned, manifest_ret, metadata_ret, metadata_reads>>
    /\ UNCHANGED notJsonl

write_media_manifest ==
    /\ w_pc = "open"
    /\ Len(file) < MaxLines
    /\ \E media_files \in ManifestPool :
          /\ file' = _write_line([_type |-> "media_manifest", files |-> media_files])
          /\ written' = Append(written, [op |-> "media_manifest", arg |-> media_files])
    /\ UNCHANGED <<w_pc, _entity_count, _content_type_counts, r_pc, r_pos, _metadata,
                   _media_manifest, _current_line, it_pc, consumed, format_errors,
                   warned, manifest_ret, metadata_ret, metadata_reads>>
    /\ UNCHANGED notJsonl

\* __exit__: the file is closed
WriterExit ==
    /\ w_pc = "open"
    /\ w_pc' = "closed"
    /\ UNCHANGED <<file, _entity_count, _content_type_counts, written, r_pc, r_pos, _metadata,
                   _media_manifest, _current_line, it_pc, consumed, format_errors,
                   warned, manifest_ret, metadata_ret, metadata_reads>>
    /\ UNCHANGED notJsonl

\* a value held where the code holds None or an object
Some(kind, v) == [t |-> kind, v |-> v]

\* a read_metadata without the early return of lines 77-78
read_metadata_uncached ==
    IF r_pos = Len(file)
    THEN [pos |-> r_pos, cur |-> 1, meta |-> None,
          err |-> {<<"empty", 0, r_pos + 1>>}, read |-> {}]
    ELSE LET line == file[r_pos + 1]
             Raise(kind) == [pos |-> r_pos + 1, cur |-> 1, meta |-> None,
                             err |-> {<<kind, 1, r_pos + 1>>}, read |-> {r_pos + 1}]
         IN  IF line.j \in {"invalid", "blank"} THEN Raise("invalid_json")
             ELSE IF line.j # "object" THEN Raise("not_object")
             ELSE IF Get(line.rec, "_type", "None") # "metadata" THEN Raise("not_metadata")
             ELSE [pos |-> r_pos + 1, cur |-> 1,
                   meta |-> Some("ExportMetadata", Pop(line.rec, "_type")),
                   err |-> {}, read |-> {r_pos + 1}]

\* read_metadata (lines 65-100) called in the reader's current state: the new file
\* position, _current_line and _metadata, and the FormatError raised, if any
read_metadata ==
    IF _metadata # None
    THEN [pos |-> r_pos, cur |-> _current_line, meta |-> _metadata, err |-> {}, read |-> {}]
    ELSE IF r_pos = Len(file)
    THEN [pos |-> r_pos, cur |-> 1, meta |-> None,
          err |-> {<<"empty", 0, r_pos + 1>>}, read |-> {}]
    ELSE LET line == file[r_pos + 1]
             Raise(kind) == [pos |-> r_pos + 1, cur |-> 1, meta |-> None,
                             err |-> {<<kind, 1, r_pos + 1>>}, read |-> {r_pos + 1}]
         IN  IF line.j \in {"invalid", "blank"} THEN Raise("invalid_json")
             ELSE IF line.j # "object" THEN Raise("not_object")
             ELSE IF Get(line.rec, "_type", "None") # "metadata" THEN Raise("not_metadata")
             ELSE [pos |-> r_pos + 1, cur |-> 1,
                   meta |-> Some("ExportMetadata", Pop(line.rec, "_type")),
                   err |-> {}, read |-> {r_pos + 1}]

\* the loop of iter_entities (lines 120-155) run from a file position until it
\* yields, breaks at the manifest, raises, or reaches the end of the file
RECURSIVE Scan(_, _, _)
Scan(at, cur, w) ==
    IF at = Len(file) THEN [out |-> "end", pos |-> at, cur |-> cur, warned |-> w]
    ELSE LET line == file[at + 1]
             n    == cur + 1
             Raise(kind) == [out |-> "raise", pos |-> at + 1, cur |-> n, warned |-> w,
                             err |-> <<kind, n, at + 1>>]
         IN  IF line.j = "blank" THEN Scan(at + 1, n, w)
             ELSE IF line.j = "invalid" THEN Raise("invalid_json")
             ELSE IF line.j # "object" THEN Raise("not_object")
             ELSE LET record_type == Get(line.rec, "_type", "None") IN
                  IF record_type = "entity"
                  THEN [out |-> "yield", pos |-> at + 1, cur |-> n, warned |-> w,
                        entity |-> Pop(line.rec, "_type")]
                  ELSE IF record_type = "media_manifest"
                  THEN [out |-> "break", pos |-> at + 1, cur |-> n, warned |-> w,
                        files |-> Get(line.rec, "files", <<>>)]
                  ELSE IF record_type = "metadata" THEN Scan(at + 1, n, w)
                  ELSE Scan(at + 1, n, w \cup {n})

\* a read_media_manifest that looks no further than the cache
DrainNothing(at, cur, w, discarded) ==
    [r |-> [out |-> "end", pos |-> at, cur |-> cur, warned |-> w], discarded |-> discarded]

\* `for _ in self.iter_entities(): pass` (lines 174-175)
RECURSIVE Drain(_, _, _, _)
Drain(at, cur, w, discarded) ==
    LET r == Scan(at, cur, w) IN
    IF r.out = "yield"
    THEN Drain(r.pos, r.cur, r.warned, Append(discarded, [e |-> r.entity, how |-> "discard"]))
    ELSE [r |-> r, discarded |-> discarded]

\* JSONLImportReader(path) and __enter__, on a file that a writer has closed or that
\* came from elsewhere
ReaderEnter ==
    /\ w_pc \in {"closed", "foreign"}
    /\ r_pc = "new"
    /\ r_pc' = "open"
    /\ UNCHANGED <<file, w_pc, _entity_count, _content_type_counts, written, r_pos,
                   _metadata,
                   _media_manifest, _current_line, it_pc, consumed, format_errors,
                   warned, manifest_ret, metadata_ret, metadata_reads>>
    /\ UNCHANGED notJsonl

\* an explicit reader.read_metadata()
ReadMetadata ==
    /\ r_pc = "open"
    /\ LET m == read_metadata IN
       /\ r_pos' = m.pos
       /\ _current_line' = m.cur
       /\ _metadata' = m.meta
       /\ format_errors' = format_errors \cup m.err
       /\ metadata_reads' = metadata_reads \cup m.read
       /\ metadata_ret' = IF m.err = {} THEN m.meta ELSE metadata_ret
    /\ UNCHANGED <<file, w_pc, _entity_count, _content_type_counts, written, r_pc, _media_manifest,
                   it_pc, consumed, warned, manifest_ret>>
    /\ UNCHANGED notJsonl

\* reader.iter_entities(): a generator object is made, none of its code runs yet
IterEntities ==
    /\ r_pc = "open"
    /\ it_pc \in {"none", "done", "raised"}
    /\ it_pc' = "created"
    /\ UNCHANGED <<file, w_pc, _entity_count, _content_type_counts, written, r_pc, r_pos, _metadata,
                   _media_manifest, _current_line, consumed, format_errors, warned,
                   manifest_ret, metadata_ret, metadata_reads>>
    /\ UNCHANGED notJsonl

\* next() on the generator: lines 113-118 the first time, then the loop up to the
\* next yield, break, raise or the end of the file
IterNext ==
    /\ r_pc = "open"
    /\ it_pc \in {"created", "suspended"}
    /\ LET m == IF it_pc = "created" THEN read_metadata
                ELSE [pos |-> r_pos, cur |-> _current_line, meta |-> _metadata,
                      err |-> {}, read |-> {}]
       IN
       /\ _metadata' = m.meta
       /\ metadata_reads' = metadata_reads \cup m.read
       /\ IF m.err # {}
          THEN /\ it_pc' = "raised"
               /\ r_pos' = m.pos
               /\ _current_line' = m.cur
               /\ format_errors' = format_errors \cup m.err
               /\ UNCHANGED <<_media_manifest, consumed, warned>>
          ELSE LET r == Scan(m.pos, m.cur, warned) IN
               /\ r_pos' = r.pos
               /\ _current_line' = r.cur
               /\ warned' = r.warned
               /\ it_pc' = CASE r.out = "yield" -> "suspended"
                             [] r.out = "raise" -> "raised"
                             [] OTHER -> "done"
               /\ consumed' = IF r.out = "yield"
                              THEN Append(consumed, [e |-> r.entity, how |-> "yield"])
                              ELSE consumed
               /\ _media_manifest' = IF r.out = "break" THEN Some("list", r.files)
                                     ELSE _media_manifest
               /\ format_errors' = IF r.out = "raise" THEN format_errors \cup {r.err}
                                   ELSE format_errors
    /\ UNCHANGED <<file, w_pc, _entity_count, _content_type_counts, written, r_pc, manifest_ret,
                   metadata_ret>>
    /\ UNCHANGED notJsonl

\* reader.read_media_manifest() (lines 157-181)
ReadMediaManifest ==
    /\ r_pc = "open"
    /\ IF _media_manifest # None
       THEN /\ manifest_ret' = _media_manifest
            /\ UNCHANGED <<r_pos, _metadata, _media_manifest, _current_line, consumed,
                           format_errors, warned, metadata_reads>>
       ELSE LET m == read_metadata IN
            /\ _metadata' = m.meta
            /\ metadata_reads' = metadata_reads \cup m.read
            /\ IF m.err # {}
               THEN /\ r_pos' = m.pos
                    /\ _current_line' = m.cur
                    /\ format_errors' = format_errors \cup m.err
                    /\ UNCHANGED <<_media_manifest, consumed, warned, manifest_ret>>
               ELSE LET d == Drain(m.pos, m.cur, warned, <<>>)
                        r == d.r
                    IN
                    /\ r_pos' = r.pos
                    /\ _current_line' = r.cur
                    /\ warned' = r.warned
                    /\ consumed' = consumed \o d.discarded
                    /\ _media_manifest' = IF r.out = "break" THEN Some("list", r.files)
                                          ELSE _media_manifest
                    /\ format_errors' = IF r.out = "raise" THEN format_errors \cup {r.err}
                                        ELSE format_errors
                    /\ manifest_ret' = CASE r.out = "break" -> Some("list", r.files)
                                         [] r.out = "end" -> Some("list", <<>>)
                                         [] OTHER -> manifest_ret
    /\ UNCHANGED <<file, w_pc, _entity_count, _content_type_counts, written, r_pc, it_pc,
                   metadata_ret>>
    /\ UNCHANGED notJsonl

\* files that did not come from a writer: every line a reader can meet
ForeignLines == {BlankLine, InvalidLine, ArrayLine, Obj([_type |-> "schema"]),
                 Obj(WithType("metadata", TheMetadata)),
                 Obj([_type |-> "media_manifest", files |-> <<MediaFile(1)>>])}
                \cup {Obj(WithType("entity", e)) : e \in {x \in EntityPool : x.id = 1}}

ForeignFiles == UNION {[1..n -> ForeignLines] : n \in 0..MaxForeignLines}

InitJsonl ==
    /\ \/ w_pc = "new" /\ file = <<>>
       \/ w_pc = "foreign" /\ file \in ForeignFiles
    /\ _entity_count = 0
    /\ _content_type_counts = <<>>
    /\ written = <<>>
    /\ r_pc = "new"
    /\ r_pos = 0
    /\ _metadata = None
    /\ _media_manifest = None
    /\ _current_line = 0
    /\ it_pc = "none"
    /\ consumed = <<>>
    /\ format_errors = {}
    /\ warned = {}
    /\ manifest_ret = Unset
    /\ metadata_ret = Unset
    /\ metadata_reads = {}
    /\ IdleButJsonl

NextJsonl ==
    \/ WriterEnter
    \/ write_metadata
    \/ write_entity
    \/ write_media_manifest
    \/ WriterExit
    \/ ReaderEnter
    \/ ReadMetadata
    \/ IterEntities
    \/ IterNext
    \/ ReadMediaManifest

SpecJsonl == InitJsonl /\ [][NextJsonl]_vars

-----------------------------------------------------------------------------
(* Properties of the JSONL container.                                      *)

\* the writer was used as its docstring shows: write_metadata, then write_entity
\* for each entity, then write_media_manifest, and the file was closed
WrittenInOrder ==
    /\ w_pc = "closed"
    /\ Len(written) >= 2
    /\ written[1].op = "metadata"
    /\ written[Len(written)].op = "media_manifest"
    /\ \A i \in 2..(Len(written) - 1) : written[i].op = "entity"

WrittenEntities == [i \in 1..(Len(written) - 2) |-> written[i + 1].arg]
WrittenManifest == written[Len(written)].arg

Yielded == SelectSeq(consumed, LAMBDA c : c.how = "yield")

\* C12: from a file written in order, the entities the reader takes from the file
\* are the entities written, each once and in the order written, and a finished
\* iteration has taken all of them; nothing else is ever yielded.
C12_EntitiesRoundTrip ==
    WrittenInOrder =>
        /\ Len(consumed) <= Len(WrittenEntities)
        /\ \A i \in 1..Len(consumed) : consumed[i].e = WrittenEntities[i]
        /\ it_pc = "done" => Len(consumed) = Len(WrittenEntities)
        /\ it_pc # "raised"

C12_Witness ==
    /\ WrittenInOrder
    /\ it_pc = "done"
    /\ Len(Yielded) = 2
    /\ Yielded[1].e # Yielded[2].e

\* C13: from a file written in order, read_media_manifest returns the manifest
\* written whenever it is called; a finished iteration has cached the manifest, and
\* after a read_media_manifest call every entity line has been taken from the file.
C13_ManifestRecovered ==
    WrittenInOrder =>
        /\ manifest_ret # Unset =>
              /\ manifest_ret = Some("list", WrittenManifest)
              /\ Len(consumed) = Len(WrittenEntities)
        /\ it_pc = "done" => _media_manifest = Some("list", WrittenManifest)
        /\ _media_manifest # None => _media_manifest = Some("list", WrittenManifest)

\* the manifest is asked for while the caller's iteration is suspended after its
\* first entity; the second entity is discarded
C13_Witness ==
    /\ WrittenInOrder
    /\ it_pc = "suspended"
    /\ Len(consumed) = 2
    /\ consumed[1].how = "yield"
    /\ consumed[2].how = "discard"
    /\ manifest_ret = Some("list", <<MediaFile(1)>>)

TypeOfLine(i) == Get(file[i].rec, "_type", "None")

\* C14: in every file of the writer, whatever the order of the write calls, a
\* metadata record is on line 1 only, line 1 is a metadata record, and a
\* media_manifest record is on the last line only.
C14_WriterKeepsOrder ==
    w_pc \in {"open", "closed"} =>
        /\ file # <<>> => TypeOfLine(1) = "metadata"
        /\ \A i \in 1..Len(file) :
              /\ TypeOfLine(i) = "metadata" => i = 1
              /\ TypeOfLine(i) = "media_manifest" => i = Len(file)

\* C15: no entity leaves the reader before the metadata was read; read_metadata
\* consumes at most one metadata line; and once the metadata is cached, no call
\* of read_metadata consumes a line or returns anything but the cached metadata.
C15_MetadataReadOnceAndFirst ==
    /\ [](consumed # <<>> => _metadata # None)
    /\ [](Cardinality({l \in metadata_reads :
                          file[l].j = "object" /\ TypeOfLine(l) = "metadata"}) <= 1)
    /\ [][_metadata # None =>
             /\ _metadata' = _metadata
             /\ metadata_reads' = metadata_reads
             /\ metadata_ret' \in {metadata_ret, _metadata}]_vars
    /\ [][(ReadMetadata /\ _metadata # None) =>
             (r_pos' = r_pos /\ metadata_ret' = _metadata)]_vars

\* iteration started without any read_metadata call and has yielded its first entity
C15_Witness ==
    /\ it_pc = "suspended"
    /\ Len(Yielded) = 1
    /\ metadata_reads = {1}
    /\ metadata_ret = Unset
    /\ r_pos = 2

\* C16: every FormatError for a line that is not JSON or not a JSON object reports
\* the 1-based position of that line in the file.
C16_ErrorReportsPhysicalLine ==
    \A e \in format_errors :
        e[1] \in {"invalid_json", "not_object"} => e[2] = e[3]

-----------------------------------------------------------------------------
(* BaseClient._detect_api_version.                                         *)
(* A response body is told apart by what `data` is and by which of the     *)
(* keys `attributes` and `documentId` the object inspected carries.        *)

MaxResponses == 3     \* responses one client sees

Version(v) == [t |-> "version", v |-> v]

\* response_data: `data` an object, a non-empty list (first item inspected), an
\* empty list, null, or absent
DataKeys == SUBSET {"attributes", "documentId"}
ResponseShapes ==
    {[data |-> "dict", keys |-> ks] : ks \in DataKeys}
    \cup {[data |-> "list", keys |-> ks] : ks \in DataKeys}
    \cup {[data |-> d, keys |-> {}] : d \in {"empty_list", "null", "missing"}}

\* a detection that looks at every response, whatever is stored
_detect_api_version_fresh(response_data) ==
    IF response_data.data \in {"dict", "list"}
    THEN IF "attributes" \in response_data.keys THEN Version("v4")
         ELSE IF "documentId" \in response_data.keys THEN Version("v5")
         ELSE Version("v4")
    ELSE Version("v4")

\* lines 129-163: the value of self._api_version after the call, which is also the
\* value returned
_detect_api_version(response_data) ==
    IF _api_version # None THEN _api_version
    ELSE IF response_data.data \in {"dict", "list"}
    THEN IF "attributes" \in response_data.keys THEN Version("v4")
         ELSE IF "documentId" \in response_data.keys THEN Version("v5")
         ELSE Version("v4")
    ELSE Version("v4")

\* a response arrives and is handed to _detect_api_version
Detect ==
    /\ config_api_version # "idle"
    /\ Len(responses) < MaxResponses
    /\ \E response_data \in ResponseShapes :
          /\ _api_version' = _detect_api_version(response_data)
          /\ detect_ret' = _detect_api_version(response_data)
          /\ responses' = Append(responses, response_data)
    /\ UNCHANGED config_api_version
    /\ UNCHANGED notDetect

\* __init__, lines 72-75
InitDetect ==
    /\ config_api_version \in {"auto", "v4", "v5"}
    /\ _api_version = IF config_api_version = "auto" THEN None
                      ELSE Version(config_api_version)
    /\ detect_ret = Unset
    /\ responses = <<>>
    /\ IdleButDetect

NextDetect ==
    \/ Detect

SpecDetect == InitDetect /\ [][NextDetect]_vars

Ambiguous(response_data) ==
    ~(response_data.data \in {"dict", "list"}
      /\ response_data.keys \cap {"attributes", "documentId"} # {})

IsV5(response_data) ==
    /\ response_data.data \in {"dict", "list"}
    /\ response_data.keys = {"documentId"}

\* C17: on an "auto" client, after responses that were all ambiguous the stored
\* version is still None (each was parsed as v4), and a v5 response that follows
\* only ambiguous ones sets the stored version to v5.
C17_AmbiguousNotCached ==
    config_api_version = "auto" =>
        /\ (\A i \in 1..Len(responses) : Ambiguous(responses[i])) => _api_version = None
        /\ \A n \in 1..Len(responses) :
              (IsV5(responses[n]) /\ \A i \in 1..(n - 1) : Ambiguous(responses[i]))
                  => _api_version = Version("v5")
        /\ (responses # <<>> /\ Ambiguous(responses[Len(responses)]) /\ _api_version = None)
              => detect_ret = Version("v4")

\* C18: once a version is stored it never changes, and every detection returns it.
C18_StoredVersionIsFinal ==
    [][_api_version # None =>
          /\ _api_version' = _api_version
          /\ detect_ret' = _api_version]_vars

\* a client that detected v5 is later handed a v4-shaped response
C18_Witness ==
    /\ config_api_version = "auto"
    /\ Len(responses) = 2
    /\ responses[1] = [data |-> "dict", keys |-> {"documentId"}]
    /\ responses[2] = [data |-> "dict", keys |-> {"attributes"}]
    /\ _api_version = Version("v5")
    /\ detect_ret = Version("v5")

-----------------------------------------------------------------------------
(* RelationResolver.extract_relations and                                  *)
(* MediaHandler.extract_media_references on one attributes mapping.        *)

MaxItems == 2         \* sub-objects in one {"data": [...]} list

\* the `id` of a sub-object that has no "id" key
NoId == -1

\* the fields of the attributes mapping, in the order the dict holds them
FieldOrder == <<"author", "cover">>

SubObjects == {JObj(id, m) : id \in {NoId, 5}, m \in BOOLEAN}

FieldValues ==
    {JStr("t"), JData(JNull), JData(JStr("t"))}
    \cup {JData(o) : o \in SubObjects}
    \cup {JData(JList(items)) :
            items \in UNION {[1..n -> {JObj(1, TRUE), JObj(2, FALSE)}] : n \in 0..MaxItems}}

\* [item["id"] for item in items if "id" in item]
RECURSIVE IdsOf(_)
IdsOf(items) ==
    IF items = <<>> THEN <<>>
    ELSE (IF Head(items).id # NoId THEN <<Head(items).id>> ELSE <<>>) \o IdsOf(Tail(items))

\* extract_relations, lines 55-66, for one field value: whether the field gets a
\* key, and the ids under it
RelationEntry(field_value) ==
    IF ~IsDataDict(field_value) THEN [key |-> FALSE, ids |-> <<>>]
    ELSE LET relation_data == field_value.data IN
         IF relation_data.t = "null" THEN [key |-> TRUE, ids |-> <<>>]
         ELSE IF relation_data.t = "obj"
         THEN IF relation_data.id # NoId
              THEN [key |-> TRUE, ids |-> <<relation_data.id>>]
              ELSE [key |-> FALSE, ids |-> <<>>]
         ELSE IF relation_data.t = "list"
         THEN LET ids == IdsOf(relation_data.items) IN
              [key |-> ids # <<>>, ids |-> ids]
         ELSE [key |-> FALSE, ids |-> <<>>]

extract_relations(data) ==
    [f \in {g \in DOMAIN data : RelationEntry(data[g]).key} |-> RelationEntry(data[f]).ids]

\* extract_media_references, lines 58-69, for one field value
MediaIdsOfField(field_value) ==
    IF ~IsDataDict(field_value) THEN <<>>
    ELSE LET media_data == field_value.data IN
         IF media_data.t = "null" THEN <<>>
         ELSE IF media_data.t = "obj" /\ media_data.mime
         THEN IF media_data.id # NoId THEN <<media_data.id>> ELSE <<>>
         ELSE IF media_data.t = "list"
         THEN IdsOf(SelectSeq(media_data.items, LAMBDA i : i.mime))
         ELSE <<>>

RECURSIVE MediaIdsOver(_, _)
MediaIdsOver(data, fields) ==
    IF fields = <<>> THEN <<>>
    ELSE MediaIdsOfField(data[Head(fields)]) \o MediaIdsOver(data, Tail(fields))

extract_media_references(data) == MediaIdsOver(data, FieldOrder)

ExtractRelations ==
    /\ d_data # <<>>
    /\ d_relations = Unset
    /\ d_relations' = Some("dict", extract_relations(d_data))
    /\ UNCHANGED <<d_data, d_media_ids, d_cleaned>>
    /\ UNCHANGED notData

ExtractMediaReferences ==
    /\ d_data # <<>>
    /\ d_media_ids = Unset
    /\ d_media_ids' = Some("list", extract_media_references(d_data))
    /\ UNCHANGED <<d_data, d_relations, d_cleaned>>
    /\ UNCHANGED notData

\* RelationResolver.strip_relations
strip_relations(data) ==
    [f \in {g \in DOMAIN data : ~IsDataDict(data[g])} |-> data[f]]

StripRelations ==
    /\ d_data # <<>>
    /\ d_cleaned = Unset
    /\ d_cleaned' = Some("dict", strip_relations(d_data))
    /\ UNCHANGED <<d_data, d_relations, d_media_ids>>
    /\ UNCHANGED notData

InitData ==
    /\ d_data \in [{FieldOrder[i] : i \in 1..Len(FieldOrder)} -> FieldValues]
    /\ d_relations = Unset
    /\ d_media_ids = Unset
    /\ d_cleaned = Unset
    /\ IdleButData

NextData ==
    \/ ExtractRelations
    \/ ExtractMediaReferences
    \/ StripRelations

SpecData == InitData /\ [][NextData]_vars

\* X of {"data": X} is, or holds, a sub-object carrying `mime`
CarriesMime(x) ==
    \/ x.t = "obj" /\ x.mime
    \/ x.t = "list" /\ \E i \in 1..Len(x.items) : x.items[i].mime

\* the sub-objects of a field value {"data": X}
SubObjectsOf(field_value) ==
    IF ~IsDataDict(field_value) THEN <<>>
    ELSE IF field_value.data.t = "obj" THEN <<field_value.data>>
    ELSE IF field_value.data.t = "list" THEN field_value.data.items
    ELSE <<>>

\* the ids of the sub-objects that carry `mime`
RECURSIVE MimeIds(_)
MimeIds(items) ==
    IF items = <<>> THEN <<>>
    ELSE (IF Head(items).mime /\ Head(items).id # NoId THEN <<Head(items).id>> ELSE <<>>)
         \o MimeIds(Tail(items))

RECURSIVE MimeIdsOver(_, _)
MimeIdsOver(data, fields) ==
    IF fields = <<>> THEN <<>>
    ELSE MimeIds(SubObjectsOf(data[Head(fields)])) \o MimeIdsOver(data, Tail(fields))

\* C19: for every field {data: X}, extract_media_references reports exactly the ids
\* of the sub-objects carrying `mime`, extract_relations has the field only when X
\* carries no `mime`, and no field is both a relation and a media reference.
C19_MimeIsTheSoleDiscriminator ==
    (d_relations # Unset /\ d_media_ids # Unset) =>
        /\ d_media_ids.v = MimeIdsOver(d_data, FieldOrder)
        /\ \A f \in DOMAIN d_data :
              IsDataDict(d_data[f]) =>
                 /\ f \in DOMAIN d_relations.v => ~CarriesMime(d_data[f].data)
                 /\ ~(f \in DOMAIN d_relations.v /\ MimeIds(SubObjectsOf(d_data[f])) # <<>>)

\* C23: extract_relations has a key for every field {"data": X} that is null, one
\* referenced object or a list: the empty list for null, the one id for an object,
\* and the ids of all the items in order for a list of any length; a field that is
\* not of that shape has no key.
C23_EveryRelationFieldHasItsIds ==
    d_relations # Unset =>
        \A f \in DOMAIN d_data :
            LET v == d_data[f] IN
            /\ (IsDataDict(v) /\ v.data.t = "null") =>
                  (f \in DOMAIN d_relations.v /\ d_relations.v[f] = <<>>)
            /\ (IsDataDict(v) /\ v.data.t = "obj" /\ v.data.id # NoId) =>
                  (f \in DOMAIN d_relations.v /\ d_relations.v[f] = <<v.data.id>>)
            /\ (IsDataDict(v) /\ v.data.t = "list") =>
                  /\ f \in DOMAIN d_relations.v
                  /\ d_relations.v[f] = [i \in 1..Len(v.data.items) |-> v.data.items[i].id]
            /\ ~IsDataDict(v) => f \notin DOMAIN d_relations.v

\* C39: strip_relations and extract_relations split the fields of the mapping
\* between them: a field is missing from what strip_relations returns exactly when
\* it is a key of what extract_relations returns, and a field that is kept is kept
\* with its value.
C39_StripAndExtractPartition ==
    (d_relations # Unset /\ d_cleaned # Unset) =>
        \A f \in DOMAIN d_data :
            /\ f \notin DOMAIN d_cleaned.v <=> f \in DOMAIN d_relations.v
            /\ f \in DOMAIN d_cleaned.v => d_cleaned.v[f] = d_data[f]

-----------------------------------------------------------------------------
(* StrapiExporter.export_content_types.                                    *)

MaxExportEntities == 2    \* entities the source instance streams, over all content types

\* the media ids the source instance knows
ServerMediaIds == {1, 5}

\* the attributes of a streamed entity: `author` is text or a relation, `cover` is
\* null, a media file, or a list holding a media file and a sub-object without mime
SourceAttributes ==
    [author : {JStr("t"), JData(JObj(6, FALSE))},
     cover  : {JData(JNull), JData(JObj(5, TRUE)),
               JData(JList(<<JObj(1, TRUE), JObj(2, FALSE)>>))}]

\* the lists of n streamed entities (NormalizedEntity), numbered 1..n by the source
SourceLists(n) ==
    {[i \in 1..n |-> [id |-> i, attributes |-> a[i]]] : a \in [1..n -> SourceAttributes]}

\* the keys of a dict, in dict order
FieldsOf(d) == SelectSeq(FieldOrder, LAMBDA f : f \in DOMAIN d)

\* entity.relations, a dict of lists of ids, as the JSON value it is
RelationsAsData(relations) == [f \in DOMAIN relations |-> JList(relations[f])]

\* lines 125-137: the ExportedEntity made of one streamed entity
ExportedEntityOf(entity, content_type) ==
    [id |-> entity.id, content_type |-> content_type,
     data |-> strip_relations(entity.attributes),
     relations |-> extract_relations(entity.attributes)]

Range(seq) == {seq[i] : i \in 1..Len(seq)}

RECURSIVE Sorted(_)
Sorted(S) ==
    IF S = {} THEN <<>>
    ELSE LET m == CHOOSE x \in S : \A y \in S : x <= y IN <<m>> \o Sorted(S \ {m})

\* lines 232-241: the media ids collected from the exported entities
CollectMediaIds(ed) ==
    UNION {Range(MediaIdsOver(e.data, FieldsOf(e.data)))
           \cup Range(MediaIdsOver(RelationsAsData(e.relations), FieldsOf(e.relations))) :
           e \in UNION {Range(ed.entities[ct]) : ct \in DOMAIN ed.entities}}

\* _export_media, lines 217-275: get_media and download_media_file succeed for an
\* id exactly when the source instance answers "ok" for it
_export_media(ed) ==
    LET media_ids == CollectMediaIds(ed) IN
    IF media_ids = {} THEN ed
    ELSE LET ok == SelectSeq(Sorted(media_ids), LAMBDA id : x_server[id] = "ok") IN
         [ed EXCEPT !.media = @ \o [i \in 1..Len(ok) |-> MediaFile(ok[i])],
                    !.metadata.total_media = Len(ok)]

\* the content types of the source instance
SourceTypes == <<UID_AUTHOR, UID_ARTICLE, UID_PERSON>>

ExportEntityCount(ed) ==
    LET cts == Sorted({i \in 1..Len(SourceTypes) : SourceTypes[i] \in DOMAIN ed.entities})
        Count[i \in 0..Len(cts)] ==
            IF i = 0 THEN 0 ELSE Count[i - 1] + Len(ed.entities[SourceTypes[cts[i]]])
    IN  Count[Len(cts)]

\* StrapiExporter._uid_to_endpoint_fallback
_uid_to_endpoint_fallback(uid) ==
    LET parts == Split(uid, <<":", ":">>) IN
    IF Len(parts) = 2
    THEN LET name == Split(parts[2], <<".">>)[1] IN
         IF EndsWith(name, <<"y">>)
            /\ ~\E v \in {"a", "e", "o", "u"} : EndsWith(name, <<v, "y">>)
         THEN SubSeq(name, 1, Len(name) - 1) \o <<"i", "e", "s">>
         ELSE IF \E e \in {<<"s">>, <<"x">>, <<"z">>, <<"c", "h">>, <<"s", "h">>} :
                    EndsWith(name, e)
         THEN name \o <<"e", "s">>
         ELSE IF ~EndsWith(name, <<"s">>) THEN name \o <<"s">>
         ELSE name
    ELSE uid

\* info.pluralName of the content types of the source instance; the collection of
\* a content type is served under it
PluralName(uid) ==
    CASE uid = UID_AUTHOR  -> <<"a","u","t","h","o","r","s">>
      [] uid = UID_ARTICLE -> <<"a","r","t","i","c","l","e","s">>
      [] uid = UID_PERSON  -> <<"p","e","o","p","l","e">>

\* StrapiExporter._get_endpoint, with the schemas _fetch_schemas could cache
_get_endpoint(uid, cached) ==
    IF uid \in cached /\ PluralName(uid) # <<>> THEN PluralName(uid)
    ELSE _uid_to_endpoint_fallback(Chars(uid))

\* what stream_entities can do on an endpoint: the source instance answers
\* 404 (NotFoundError) for a collection it does not have
StreamOutcomes(endpoint) ==
    IF \E i \in 1..Len(SourceTypes) : PluralName(SourceTypes[i]) = endpoint
    THEN {"ok", "ConnectionError"}
    ELSE {"NotFoundError"}

\* lines 92-105: the argument check, the metadata, and _fetch_schemas, which keeps
\* the schemas it could fetch
ExportBegin ==
    /\ x_pc = "start"
    /\ IF x_args.include_media /\ x_args.media_dir = "none"
       THEN /\ x_pc' = "raised"
            /\ x_exc' = "ValueError"
            /\ UNCHANGED <<export_data, x_idx>>
       ELSE /\ \E with_schema \in SUBSET Range(x_args.content_types) :
                  export_data' =
                      [metadata |-> [content_types |-> x_args.content_types,
                                     total_entities |-> 0, total_media |-> 0,
                                     schemas |-> with_schema],
                       entities |-> <<>>,
                       media |-> <<>>]
            /\ x_pc' = "types"
            /\ x_idx' = 1
            /\ UNCHANGED x_exc
    /\ UNCHANGED <<x_source, x_server, x_args>>
    /\ UNCHANGED notExport

\* lines 109-139: one content type is streamed and its entities are exported
ExportContentType ==
    /\ x_pc = "types"
    /\ x_idx <= Len(x_args.content_types)
    /\ LET content_type == x_args.content_types[x_idx]
           streamed == x_source[content_type]
           endpoint == _get_endpoint(content_type, export_data.metadata.schemas)
       IN  \E raises \in CallbackRaises, stream \in StreamOutcomes(endpoint) :
              IF raises \/ stream # "ok"
              THEN /\ x_pc' = "raised"
                   /\ x_exc' = IF raises THEN "progress_callback" ELSE stream
                   /\ UNCHANGED <<export_data, x_idx>>
              ELSE /\ export_data' =
                         [export_data EXCEPT !.entities =
                             (content_type :>
                                 [i \in 1..Len(streamed) |->
                                     ExportedEntityOf(streamed[i], content_type)]) @@ @]
                   /\ x_idx' = x_idx + 1
                   /\ UNCHANGED <<x_pc, x_exc>>
    /\ UNCHANGED <<x_source, x_server, x_args>>
    /\ UNCHANGED notExport

\* lines 141-166: the counts, the media pass, and the return
ExportFinish ==
    /\ x_pc = "types"
    /\ x_idx > Len(x_args.content_types)
    /\ LET counted == [export_data EXCEPT
                          !.metadata.total_entities = ExportEntityCount(export_data)]
       IN  \E raises \in CallbackRaises :
              IF raises
              THEN /\ x_pc' = "raised"
                   /\ x_exc' = "progress_callback"
                   /\ export_data' = counted
              ELSE /\ x_pc' = "done"
                   /\ UNCHANGED x_exc
                   /\ export_data' = IF x_args.include_media THEN _export_media(counted)
                                     ELSE counted
    /\ UNCHANGED <<x_source, x_server, x_args, x_idx>>
    /\ UNCHANGED notExport

InitExport ==
    /\ \E na \in 0..MaxExportEntities : \E nb \in 0..(MaxExportEntities - na) :
       \E np \in 0..(MaxExportEntities - na - nb) :
       \E ea \in SourceLists(na), eb \in SourceLists(nb), ep \in SourceLists(np) :
          x_source = (UID_AUTHOR :> ea) @@ (UID_ARTICLE :> eb) @@ (UID_PERSON :> ep)
    /\ x_server \in [ServerMediaIds -> {"ok", "get_media_fails", "download_fails"}]
    /\ x_args \in [content_types : {<<UID_ARTICLE>>, <<UID_AUTHOR, UID_ARTICLE>>,
                                     <<UID_PERSON, UID_ARTICLE>>},
                   include_media : BOOLEAN, media_dir : {"none", "dir"}]
    /\ ~x_args.include_media => x_args.media_dir = "none"
    /\ export_data = <<>>
    /\ x_pc = "start"
    /\ x_idx = 0
    /\ x_exc = ""
    /\ IdleButExport

NextExport ==
    \/ ExportBegin
    \/ ExportContentType
    \/ ExportFinish

SpecExport == InitExport /\ [][NextExport]_vars

\* the media ids referenced by the attributes of the entities streamed for the
\* requested content types
ReferencedMediaIds ==
    UNION {Range(MimeIdsOver(e.attributes, FieldOrder)) :
           e \in UNION {Range(x_source[ct]) : ct \in Range(x_args.content_types)}}

\* C20: after an export with include_media, export_data.media has exactly one entry
\* for each referenced media id that the source instance serves, no entry for any
\* other id, and total_media is the length of the list.
C20_MediaManifestComplete ==
    (x_pc = "done" /\ x_args.include_media) =>
        /\ \A id \in ReferencedMediaIds :
              x_server[id] = "ok" =>
                 Cardinality({i \in 1..Len(export_data.media) :
                                 export_data.media[i].id = id}) = 1
        /\ \A i \in 1..Len(export_data.media) :
              /\ export_data.media[i].id \in ReferencedMediaIds
              /\ x_server[export_data.media[i].id] = "ok"
        /\ export_data.metadata.total_media = Len(export_data.media)

\* the requested content types whose schema _fetch_schemas could not fetch
SchemaFetchFailed ==
    {ct \in Range(x_args.content_types) : ct \notin export_data.metadata.schemas}

\* C25: when the schema of a requested content type could not be fetched, the
\* export does not fail for it: if it raises, then because the progress callback
\* or the connection failed, and if it returns, every entity of every requested
\* content type is exported and metadata.schemas lacks the content type.
C25_SchemaFailureIsNotFatal ==
    (x_pc \in {"types", "done", "raised"} /\ x_exc # "ValueError"
     /\ SchemaFetchFailed # {}) =>
        /\ x_pc = "raised" => x_exc \in {"progress_callback", "ConnectionError"}
        /\ x_pc = "done" =>
              \A ct \in Range(x_args.content_types) :
                 /\ ct \in DOMAIN export_data.entities
                 /\ Len(export_data.entities[ct]) = Len(x_source[ct])
                 /\ \A i \in 1..Len(x_source[ct]) :
                       export_data.entities[ct][i].id = x_source[ct][i].id

-----------------------------------------------------------------------------
(* RelationResolver.resolve_relations and build_relation_payload on one    *)
(* `relations` mapping.                                                    *)

MaxIds == 2           \* ids under one relation field

\* the ids an exported relation can hold: integers, or a string (a document id)
OldIds == {JInt(1), JInt(2), JStr("doc")}

RelationFields == {"author", "categories"}

\* line 134: isinstance(old_id, int) and old_id in type_mapping
Resolvable(old_id, type_mapping) == old_id.t = "int" /\ old_id.n \in DOMAIN type_mapping

\* lines 132-139: the new ids of one field
RECURSIVE NewIds(_, _)
NewIds(old_ids, type_mapping) ==
    IF old_ids = <<>> THEN <<>>
    ELSE (IF Resolvable(Head(old_ids), type_mapping)
          THEN <<type_mapping[Head(old_ids).n]>> ELSE <<>>)
         \o NewIds(Tail(old_ids), type_mapping)

\* lines 136-139: the warnings of one field, one per id that is not resolved
RECURSIVE Unresolved(_, _)
Unresolved(old_ids, type_mapping) ==
    IF old_ids = <<>> THEN <<>>
    ELSE (IF Resolvable(Head(old_ids), type_mapping) THEN <<>> ELSE <<Head(old_ids)>>)
         \o Unresolved(Tail(old_ids), type_mapping)

\* line 129: id_mapping.get(content_type, {})
TypeMapping(id_mapping, content_type) ==
    IF content_type \in DOMAIN id_mapping THEN id_mapping[content_type] ELSE <<>>

\* resolve_relations without the test of line 141
resolve_relations_keeping_empty(relations, id_mapping, content_type) ==
    [f \in DOMAIN relations |-> NewIds(relations[f], TypeMapping(id_mapping, content_type))]

\* RelationResolver.resolve_relations
resolve_relations(relations, id_mapping, content_type) ==
    LET type_mapping == TypeMapping(id_mapping, content_type) IN
    [f \in {g \in DOMAIN relations : NewIds(relations[g], type_mapping) # <<>>} |->
        NewIds(relations[f], type_mapping)]

\* the fields of `relations`, in the order the dict holds them
RelationFieldOrder == <<"author", "categories">>

RECURSIVE WarningsOver(_, _, _)
WarningsOver(relations, type_mapping, fields) ==
    IF fields = <<>> THEN <<>>
    ELSE (IF Head(fields) \in DOMAIN relations
          THEN LET u == Unresolved(relations[Head(fields)], type_mapping) IN
               [i \in 1..Len(u) |-> <<Head(fields), u[i]>>]
          ELSE <<>>)
         \o WarningsOver(relations, type_mapping, Tail(fields))

ResolveRelations ==
    /\ rel_content_type # ""
    /\ rel_resolved = Unset
    /\ rel_resolved' = Some("dict",
                            resolve_relations(rel_relations, rel_id_mapping, rel_content_type))
    /\ rel_warnings' = WarningsOver(rel_relations,
                                    TypeMapping(rel_id_mapping, rel_content_type),
                                    RelationFieldOrder)
    /\ UNCHANGED <<rel_relations, rel_id_mapping, rel_content_type, rel_payload>>
    /\ UNCHANGED notResolve

\* build_relation_payload takes lists of integers
AllIntegers(relations) ==
    \A f \in DOMAIN relations : \A i \in 1..Len(relations[f]) : relations[f][i].t = "int"

Ints(ids) == [i \in 1..Len(ids) |-> ids[i].n]

BuildRelationPayload ==
    /\ rel_content_type # ""
    /\ rel_payload = Unset
    /\ AllIntegers(rel_relations)
    /\ rel_payload' = Some("dict", build_relation_payload(
                                      [f \in DOMAIN rel_relations |-> Ints(rel_relations[f])]))
    /\ UNCHANGED <<rel_relations, rel_id_mapping, rel_content_type, rel_resolved,
                   rel_warnings>>
    /\ UNCHANGED notResolve

IdLists == UNION {[1..n -> OldIds] : n \in 0..MaxIds}

\* the {old_id: new_id} mappings of one content type
TypeMappings == {[id \in S |-> TargetBase + id] : S \in SUBSET {1, 2}}

InitResolve ==
    /\ \E S \in SUBSET RelationFields : rel_relations \in [S -> IdLists]
    /\ rel_id_mapping \in {<<>>} \cup {(UID_AUTHOR :> m) : m \in TypeMappings}
    /\ rel_content_type \in {UID_AUTHOR, UID_ARTICLE}
    /\ rel_resolved = Unset
    /\ rel_warnings = <<>>
    /\ rel_payload = Unset
    /\ IdleButResolve

NextResolve ==
    \/ ResolveRelations
    \/ BuildRelationPayload

SpecResolve == InitResolve /\ [][NextResolve]_vars

\* C21: build_relation_payload keeps the fields of its input, and gives each field
\* an empty list for no id, the id itself for one id, and the list of the ids in
\* order for two or more.
C21_PayloadShapeFollowsIdCount ==
    rel_payload # Unset =>
        /\ DOMAIN rel_payload.v = DOMAIN rel_relations
        /\ \A f \in DOMAIN rel_relations :
              LET ids == rel_relations[f]
                  out == rel_payload.v[f]
              IN  /\ Len(ids) = 0 => out = JList(<<>>)
                  /\ Len(ids) = 1 => out = ids[1]
                  /\ Len(ids) >= 2 => out = JList(ids)

C21_Witness ==
    /\ rel_payload # Unset
    /\ \E f, g \in DOMAIN rel_relations :
          /\ Len(rel_relations[f]) = 1 /\ rel_payload.v[f].t = "int"
          /\ Len(rel_relations[g]) = 2 /\ rel_payload.v[g].t = "list"
          /\ rel_relations[g][1] # rel_relations[g][2]

\* the positions of old_ids that the mapping resolves
ResolvablePositions(old_ids, type_mapping) ==
    {i \in 1..Len(old_ids) : Resolvable(old_ids[i], type_mapping)}

\* C22: resolve_relations returns, for each field, the mapped ids of exactly the
\* resolvable old ids in their original order, and has no key for a field without
\* a resolvable id; no returned list is empty.
C22_ResolvedAreTheMappedIdsInOrder ==
    rel_resolved # Unset =>
        LET type_mapping == TypeMapping(rel_id_mapping, rel_content_type) IN
        /\ DOMAIN rel_resolved.v \subseteq DOMAIN rel_relations
        /\ \A f \in DOMAIN rel_relations :
              LET P == ResolvablePositions(rel_relations[f], type_mapping) IN
              /\ f \in DOMAIN rel_resolved.v <=> P # {}
              /\ f \in DOMAIN rel_resolved.v =>
                    /\ Len(rel_resolved.v[f]) = Cardinality(P)
                    /\ \A i \in P :
                          rel_resolved.v[f][Cardinality({j \in P : j <= i})]
                              = type_mapping[rel_relations[f][i].n]
        /\ \A f \in DOMAIN rel_resolved.v : rel_resolved.v[f] # <<>>

C22_Witness ==
    /\ rel_resolved # Unset
    /\ \E f, g \in DOMAIN rel_relations :
          /\ f \in DOMAIN rel_resolved.v
          /\ Len(rel_resolved.v[f]) = 1 /\ Len(rel_relations[f]) = 2
          /\ g \notin DOMAIN rel_resolved.v /\ rel_relations[g] # <<>>
    /\ rel_warnings # <<>>

-----------------------------------------------------------------------------
(* MediaHandler.update_media_references on one attributes mapping.         *)

\* the sub-objects of a media or relation field: two media files and a relation
MediaItems == {JObj(1, TRUE), JObj(2, TRUE), JObj(2, FALSE)}

MediaFieldValues ==
    {JStr("t"), JData(JNull), JData(JStr("t"))}
    \cup {JData(o) : o \in MediaItems \cup {JObj(NoId, TRUE)}}
    \cup {JData(JList(items)) : items \in UNION {[1..n -> MediaItems] : n \in 0..MaxItems}}

\* {old media id: new media id}
MediaMappings == {[id \in S |-> TargetBase + id] : S \in SUBSET {1, 2}}

UpdateMediaReferences ==
    /\ um_data # <<>>
    /\ um_ret = Unset
    /\ um_ret' = Some("dict", update_media_references(um_data, um_mapping))
    \* no statement of the function assigns into `data` or into an object it holds
    /\ UNCHANGED <<um_data, um_mapping>>
    /\ UNCHANGED notMediaRefs

InitMediaRefs ==
    /\ um_data \in [{FieldOrder[i] : i \in 1..Len(FieldOrder)} -> MediaFieldValues]
    /\ um_mapping \in MediaMappings
    /\ um_ret = Unset
    /\ IdleButMediaRefs

NextMediaRefs ==
    \/ UpdateMediaReferences

SpecMediaRefs == InitMediaRefs /\ [][NextMediaRefs]_vars

\* a sub-object that carries `mime` and whose id has an entry in the mapping
MappedMedia(x) == x.t = "obj" /\ x.mime /\ x.id \in DOMAIN um_mapping

\* what C24 requires of one sub-object
Rewritten(x) == IF MappedMedia(x) THEN [x EXCEPT !.id = um_mapping[x.id]] ELSE x

-----------------------------------------------------------------------------
(* utils.schema.extract_info_from_schema on one schema dict.               *)

\* a nested dict as a JSON value
JDict(d) == [t |-> "dict", d |-> d]

\* Python's truth test of a value dict.get returned
Truthy(v) == v.t = "str" /\ v.s # ""

InfoKeys == {"displayName", "singularName", "pluralName"}

\* the dicts over InfoKeys whose displayName is absent, empty or `display`, and
\* whose other names are absent or as given
InfoDicts(display, singular, plural) ==
    {d \in UNION {[K -> {JStr(""), JStr(display), JStr(singular), JStr(plural)}] :
                     K \in SUBSET InfoKeys} :
        /\ "displayName" \in DOMAIN d => d["displayName"] \in {JStr(""), JStr(display)}
        /\ "singularName" \in DOMAIN d => d["singularName"] = JStr(singular)
        /\ "pluralName" \in DOMAIN d => d["pluralName"] = JStr(plural)}

\* utils.schema.extract_info_from_schema
extract_info_from_schema(schema) ==
    LET nested_info == Get(schema, "info", JDict(<<>>)).d IN
    IF Truthy(Get(nested_info, "displayName", JNull))
    THEN nested_info
    ELSE [key \in InfoKeys \cup {"description"} |->
             Get(schema, key, IF key = "displayName" THEN JStr("") ELSE JNull)]

ExtractInfoFromSchema ==
    /\ si_schema # <<>>
    /\ si_ret = Unset
    /\ si_ret' = Some("dict", extract_info_from_schema(si_schema))
    /\ UNCHANGED si_schema
    /\ UNCHANGED notSchema

\* a schema of the API: `kind`, the flattened names or not, a nested `info` or not
InitSchema ==
    /\ \E flat \in InfoDicts("Article", "article", "articles") :
       \E nested \in {<<>>} \cup {("info" :> JDict(d)) : d \in InfoDicts("Post", "post", "posts")} :
          si_schema = ("kind" :> JStr("collectionType")) @@ flat @@ nested
    /\ si_ret = Unset
    /\ IdleButSchema

NextSchema ==
    \/ ExtractInfoFromSchema

SpecSchema == InitSchema /\ [][NextSchema]_vars

\* the schema carries its info flattened: a top-level displayName that is not empty
HasFlatInfo == Truthy(Get(si_schema, "displayName", JNull))

\* the schema carries a nested `info` with a displayName that is not empty
HasNestedInfo ==
    "info" \in DOMAIN si_schema /\ Truthy(Get(si_schema["info"].d, "displayName", JNull))

\* C27: extract_info_from_schema returns the flattened top-level names whenever
\* the schema has them, also when it has a nested `info` as well, and returns the
\* nested `info` when the schema has one and the flattened names are empty.
C27_FlatInfoTakesPriority ==
    si_ret # Unset =>
        /\ HasFlatInfo =>
              \A key \in InfoKeys :
                 Get(si_ret.v, key, JNull) = Get(si_schema, key, JNull)
        /\ (~HasFlatInfo /\ HasNestedInfo) => si_ret.v = si_schema["info"].d

-----------------------------------------------------------------------------
(* AsyncClient.bulk_create, bulk_update and bulk_delete: the coroutine of  *)
(* the operation and the tasks asyncio.gather runs for it.                 *)

MaxBulkItems == 4     \* items handed to one bulk operation
MaxBatchSize == 3
MaxConcurrency == 2

\* the indexes (from 0) of the items of the batch that starts at `start`
BatchOf(start) ==
    {i \in 0..(Len(b_items) - 1) : start <= i /\ i < start + batch_size}

\* lines 876-881: the tasks of one batch are created, each with the batch's semaphore
StartBatch ==
    /\ b_pc = "loop"
    /\ batch_start < Len(b_items)
    /\ tasks' = [i \in DOMAIN tasks |-> IF i \in BatchOf(batch_start) THEN "waiting" ELSE tasks[i]]
    /\ semaphore' = max_concurrency
    /\ b_pc' = "gather"
    /\ UNCHANGED <<b_op, b_items, batch_size, max_concurrency, batch_start, b_successes,
                   b_failures, completed, success_count, b_result, progress_calls>>
    /\ UNCHANGED notBulk

\* asyncio.Semaphore.acquire without the wait for a free slot
SemaphoreAlwaysFree(value) == TRUE

\* asyncio.Semaphore.acquire returns when the value is positive
SemaphoreFree(value) == value > 0

\* line 852: `async with semaphore`, then the request is sent (line 854)
EnterSemaphore ==
    \E i \in DOMAIN tasks :
        /\ tasks[i] = "waiting"
        /\ SemaphoreFree(semaphore)
        /\ semaphore' = semaphore - 1
        /\ tasks' = [tasks EXCEPT ![i] = "in_flight"]
        /\ UNCHANGED <<b_op, b_items, batch_size, max_concurrency, b_pc, batch_start,
                       b_successes, b_failures, completed, success_count, b_result,
                       progress_calls>>
        /\ UNCHANGED notBulk

\* a callback told the position of the item instead of the count of completed items
ProgressCallByIndex(count, total, idx) ==
    [completed |-> idx + 1, total |-> total, task |-> idx]

\* lines 858-860 and 871-873: progress_callback(completed, len(items)), called by
\* the task of the item at index idx
ProgressCall(count, total, idx) ==
    [completed |-> count, total |-> total, task |-> idx]

\* what a request can end with: a response with or without `data`, a StrapiError,
\* or another exception
RequestOutcomes == {"data", "no_data", "StrapiError", "Exception"}

\* lines 854-873: the request of one task completes, the task records it, calls the
\* progress callback and leaves the semaphore
RequestCompletes ==
    \E i \in DOMAIN tasks : \E outcome \in RequestOutcomes, raises \in CallbackRaises :
        /\ tasks[i] = "in_flight"
        /\ semaphore' = semaphore + 1
        /\ tasks' = [tasks EXCEPT ![i] =
                        IF outcome = "Exception" \/ raises THEN "exception" ELSE "done"]
        /\ b_successes' = IF outcome = "data" THEN Append(b_successes, i) ELSE b_successes
        /\ b_failures' = IF outcome = "StrapiError"
                         THEN Append(b_failures, [index |-> i, item |-> b_items[i + 1]])
                         ELSE b_failures
        /\ success_count' = IF b_op = "delete" /\ outcome \in {"data", "no_data"}
                            THEN success_count + 1 ELSE success_count
        /\ completed' = IF outcome = "Exception" THEN completed ELSE completed + 1
        /\ progress_calls' = IF outcome = "Exception" THEN progress_calls
                             ELSE Append(progress_calls,
                                         ProgressCall(completed + 1, Len(b_items), i))
        /\ UNCHANGED <<b_op, b_items, batch_size, max_concurrency, b_pc, batch_start, b_result>>
        /\ UNCHANGED notBulk

\* line 884: asyncio.gather returns when every task of the batch is done
GatherReturns ==
    /\ b_pc = "gather"
    /\ \A i \in BatchOf(batch_start) : tasks[i] = "done"
    /\ batch_start' = batch_start + batch_size
    /\ b_pc' = "loop"
    /\ UNCHANGED <<b_op, b_items, batch_size, max_concurrency, b_successes, b_failures,
                   completed, success_count, b_result, tasks, semaphore, progress_calls>>
    /\ UNCHANGED notBulk

\* line 884: with return_exceptions=False the first exception of a task leaves
\* gather and the bulk operation; the other tasks are not cancelled
GatherRaises ==
    /\ b_pc = "gather"
    /\ \E i \in BatchOf(batch_start) : tasks[i] = "exception"
    /\ b_pc' = "raised"
    /\ UNCHANGED <<b_op, b_items, batch_size, max_concurrency, batch_start, b_successes,
                   b_failures, completed, success_count, b_result, tasks, semaphore, progress_calls>>
    /\ UNCHANGED notBulk

\* lines 886-892 (bulk_delete: 1055-1061)
BulkReturn ==
    /\ b_pc = "loop"
    /\ batch_start >= Len(b_items)
    /\ b_result' = Some("BulkOperationResult",
                        [successes |-> b_successes,
                         failures |-> b_failures,
                         total |-> Len(b_items),
                         succeeded |-> IF b_op = "delete" THEN success_count
                                       ELSE Len(b_successes),
                         failed |-> Len(b_failures)])
    /\ b_pc' = "returned"
    /\ UNCHANGED <<b_op, b_items, batch_size, max_concurrency, batch_start, b_successes,
                   b_failures, completed, success_count, tasks, semaphore, progress_calls>>
    /\ UNCHANGED notBulk

InitBulk ==
    /\ b_op \in {"create", "update", "delete"}
    /\ \E n \in 0..MaxBulkItems : b_items = [i \in 1..n |-> 100 + i]
    /\ batch_size \in 1..MaxBatchSize
    /\ max_concurrency \in 1..MaxConcurrency
    /\ b_pc = "loop"
    /\ batch_start = 0
    /\ b_successes = <<>>
    /\ b_failures = <<>>
    /\ completed = 0
    /\ success_count = 0
    /\ b_result = Unset
    /\ tasks = [i \in 0..(Len(b_items) - 1) |-> "none"]
    /\ semaphore = 0
    /\ progress_calls = <<>>
    /\ IdleButBulk

NextBulk ==
    \/ StartBatch
    \/ EnterSemaphore
    \/ RequestCompletes
    \/ GatherReturns
    \/ GatherRaises
    \/ BulkReturn

SpecBulk == InitBulk /\ [][NextBulk]_vars

InFlight == {i \in DOMAIN tasks : tasks[i] = "in_flight"}
Active   == {i \in DOMAIN tasks : tasks[i] \in {"waiting", "in_flight"}}

\* C28: at most max_concurrency requests are in flight, at most batch_size tasks
\* are active, and a task of a batch exists only when every task of the batches
\* before it has completed.
C28_BoundedConcurrentBatches ==
    /\ Cardinality(InFlight) <= max_concurrency
    /\ Cardinality(Active) <= batch_size
    /\ \A i, j \in DOMAIN tasks :
          (tasks[j] # "none" /\ i < j /\ (i \div batch_size) < (j \div batch_size)) =>
             tasks[i] = "done"

C28_Witness ==
    /\ batch_start > 0
    /\ Cardinality(InFlight) = max_concurrency
    /\ \E i \in DOMAIN tasks : tasks[i] = "waiting"

\* C29: the result of a bulk operation counts every input once: total is the number
\* of inputs, succeeded + failed = total, failed is the number of failures, and the
\* index of each failure is the position of its item in the input.
C29_ResultAccountsForEveryInput ==
    b_result # Unset =>
        LET r == b_result.v IN
        /\ r.total = Len(b_items)
        /\ r.succeeded + r.failed = r.total
        /\ r.failed = Len(r.failures)
        /\ \A f \in 1..Len(r.failures) :
              /\ r.failures[f].index \in 0..(Len(b_items) - 1)
              /\ r.failures[f].item = b_items[r.failures[f].index + 1]

-----------------------------------------------------------------------------
(* One client request: _do_request under the decorator of                  *)
(* BaseClient._create_retry_decorator.                                     *)

MaxAttempts == 3      \* largest retry.max_attempts

\* what one HTTP attempt ends with: a status code, or no response at all
\* (0: httpx.ConnectError, -1: httpx.TimeoutException)
CONNECT_ERROR == 0
TIMEOUT == -1
AttemptOutcomes == {200, 400, 401, 404, 429, 500, 503, CONNECT_ERROR, TIMEOUT}

\* _handle_error_response and the except clauses of _do_request: the exception
\* class an attempt raises, "" for a successful response
ExceptionOf(outcome) ==
    CASE outcome = 200 -> ""
      [] outcome = 401 -> "AuthenticationError"
      [] outcome = 403 -> "AuthorizationError"
      [] outcome = 404 -> "NotFoundError"
      [] outcome = 400 -> "ValidationError"
      [] outcome = 409 -> "ConflictError"
      [] outcome = 429 -> "RateLimitError"
      [] outcome >= 500 /\ outcome < 600 -> "ServerError"
      [] outcome = CONNECT_ERROR -> "ConnectionError"
      [] outcome = TIMEOUT -> "TimeoutError"
      [] OTHER -> "StrapiError"

\* line 237: retry=retry_if_exception_type((ServerError, StrapiConnectionError))
RetryIf(exc) == exc \in {"ServerError", "ConnectionError"}

\* line 231: stop=stop_after_attempt(retry_config.max_attempts)
StopAfterAttempt(attempt_number) == attempt_number >= retry_config.max_attempts

\* one attempt of _do_request and what the decorator does with its outcome:
\* return the response, make another attempt, or re-raise (reraise=True)
Attempt ==
    /\ rq_pc = "call"
    /\ \E outcome \in AttemptOutcomes :
          LET exc == ExceptionOf(outcome) IN
          /\ attempts' = Append(attempts, outcome)
          /\ IF exc = ""
             THEN rq_pc' = "returned" /\ rq_exc' = ""
             ELSE IF RetryIf(exc) /\ ~StopAfterAttempt(Len(attempts) + 1)
             THEN rq_pc' = "call" /\ rq_exc' = ""
             ELSE rq_pc' = "raised" /\ rq_exc' = exc
    /\ UNCHANGED retry_config
    /\ UNCHANGED notRetry

RetryOnStatusOptions == {{500, 502, 503, 504}, {502, 503}}

InitRetry ==
    /\ retry_config \in [max_attempts : 1..MaxAttempts, retry_on_status : RetryOnStatusOptions]
    /\ attempts = <<>>
    /\ rq_pc = "call"
    /\ rq_exc = ""
    /\ IdleButRetry

NextRetry ==
    \/ Attempt

SpecRetry == InitRetry /\ [][NextRetry]_vars

\* attempt i of the request was followed, or is about to be followed, by another
FollowedByAnother(i) == i < Len(attempts) \/ rq_pc = "call"

\* the failures after which C30 requires another attempt
RetryableFailure(outcome) ==
    \/ outcome >= 500 /\ outcome \in retry_config.retry_on_status
    \/ outcome = CONNECT_ERROR
    \/ outcome = 429

\* C30: a request makes at most max_attempts attempts and none after a success; a
\* failed attempt is followed by another exactly when fewer than max_attempts were
\* made and it failed with a server error whose status is in retry_on_status, a
\* connection failure or a 429; when the request raises, it raises the last error.
C30_RetriesOnlyRetryableFailures ==
    /\ Len(attempts) <= retry_config.max_attempts
    /\ \A i \in 1..Len(attempts) :
          /\ attempts[i] = 200 => ~FollowedByAnother(i)
          /\ attempts[i] # 200 =>
                (FollowedByAnother(i) <=>
                    (i < retry_config.max_attempts /\ RetryableFailure(attempts[i])))
    /\ rq_pc = "raised" => rq_exc = ExceptionOf(attempts[Len(attempts)])

-----------------------------------------------------------------------------
(* StrapiExporter.save_to_file and load_from_file: the single-file JSON    *)
(* format. In memory an ExportData is a record of typed fields; in the     *)
(* file it is a JSON document (objects, lists, numbers, strings, null),    *)
(* and load_from_file rebuilds the typed record by validating that         *)
(* document.                                                               *)

MaxSavedEntities == 2     \* entities of the ExportData that is saved

\* ExportedEntity.document_id: Optional[str]
DocumentIds == {None, Some("str", "doc1")}

\* ExportedEntity.data: attributes as the API returned them
SavedData ==
    {("title" :> JStr("t")),
     ("title" :> JStr("t")) @@ ("views" :> JInt(3)) @@ ("seo" :> JNull)
        @@ ("tags" :> JList(<<JStr("a"), JStr("b")>>))}

\* ExportedEntity.relations: field name -> list of ids (int or str)
SavedRelations ==
    {[f \in {} |-> <<>>],
     ("author" :> <<JInt(5)>>),
     ("author" :> <<>>) @@ ("categories" :> <<JInt(2), JStr("doc"), JInt(1)>>)}

SavedEntities(content_type, n) ==
    {[i \in 1..n |-> [id |-> i, document_id |-> doc[i], content_type |-> content_type,
                      data |-> d[i], relations |-> r[i]]] :
        doc \in [1..n -> DocumentIds], d \in [1..n -> SavedData],
        r \in [1..n -> SavedRelations]}

\* ExportData.get_entity_count: the sum of the lengths of the entity lists
RECURSIVE SumOfLengths(_, _)
SumOfLengths(lists, cts) ==
    IF cts = {} THEN 0
    ELSE LET ct == CHOOSE c \in cts : TRUE
         IN  Len(lists[ct]) + SumOfLengths(lists, cts \ {ct})

EntityCountOf(ed) == SumOfLengths(ed.entities, DOMAIN ed.entities)

\* model_dump(mode="json") of one ExportedEntity
DumpEntity(e) ==
    JDict([id |-> JInt(e.id),
           document_id |-> IF e.document_id = None THEN JNull ELSE JStr(e.document_id.v),
           content_type |-> JStr(e.content_type),
           data |-> JDict(e.data),
           relations |-> JDict([f \in DOMAIN e.relations |-> JList(e.relations[f])])])

\* model_dump(mode="json") of the ExportData
DumpExportData(ed) ==
    JDict([metadata |-> JDict([version |-> JStr(ed.metadata.version),
                               strapi_version |-> JStr(ed.metadata.strapi_version)]),
           entities |-> JDict([ct \in DOMAIN ed.entities |->
                                 JList([i \in 1..Len(ed.entities[ct]) |->
                                           DumpEntity(ed.entities[ct][i])])]),
           media |-> JList([i \in 1..Len(ed.media) |-> JInt(ed.media[i])])])

\* a save_to_file that writes the entities without their relations
save_to_file_without_relations(ed) ==
    DumpExportData([ed EXCEPT !.entities =
        [ct \in DOMAIN ed.entities |->
            [i \in 1..Len(ed.entities[ct]) |->
                [ed.entities[ct][i] EXCEPT !.relations = [f \in {} |-> <<>>]]]]])

\* save_to_file (lines 182-187): what json.load reads back from the file written
save_to_file(ed) == DumpExportData(ed)

\* validation of one entity object: the typed record, or None when it is rejected
ValidateEntity(j) ==
    IF j.t # "dict" THEN None
    ELSE IF ~({"id", "content_type"} \subseteq DOMAIN j.d) THEN None
    ELSE IF j.d.id.t # "int" \/ j.d.content_type.t # "str" THEN None
    ELSE LET doc  == Get(j.d, "document_id", JNull)
             dat  == Get(j.d, "data", JDict([f \in {} |-> JNull]))
             rels == Get(j.d, "relations", JDict([f \in {} |-> JNull]))
         IN  IF doc.t \notin {"null", "str"} \/ dat.t # "dict" \/ rels.t # "dict" THEN None
             ELSE IF \E f \in DOMAIN rels.d :
                        \/ rels.d[f].t # "list"
                        \/ \E i \in 1..Len(rels.d[f].items) :
                              rels.d[f].items[i].t \notin {"int", "str"}
             THEN None
             ELSE Some("ExportedEntity",
                       [id |-> j.d.id.n,
                        document_id |-> IF doc.t = "null" THEN None ELSE Some("str", doc.s),
                        content_type |-> j.d.content_type.s,
                        data |-> dat.d,
                        relations |-> [f \in DOMAIN rels.d |-> rels.d[f].items]])

\* ExportData.model_validate: the typed record, or None when validation fails
ValidateExportData(j) ==
    IF j.t # "dict" THEN None
    ELSE IF "metadata" \notin DOMAIN j.d THEN None
    ELSE LET ents == Get(j.d, "entities", JDict([f \in {} |-> JNull]))
             med  == Get(j.d, "media", JList(<<>>))
         IN  IF ents.t # "dict" \/ med.t # "list" \/ j.d.metadata.t # "dict" THEN None
             ELSE IF \E ct \in DOMAIN ents.d :
                        \/ ents.d[ct].t # "list"
                        \/ \E i \in 1..Len(ents.d[ct].items) :
                              ValidateEntity(ents.d[ct].items[i]) = None
             THEN None
             ELSE Some("ExportData",
                       [metadata |-> [version |-> j.d.metadata.d.version.s,
                                      strapi_version |-> j.d.metadata.d.strapi_version.s],
                        entities |-> [ct \in DOMAIN ents.d |->
                                        [i \in 1..Len(ents.d[ct].items) |->
                                            ValidateEntity(ents.d[ct].items[i]).v]],
                        media |-> [i \in 1..Len(med.items) |-> med.items[i].n]])

\* lines 182-189
SaveToFile ==
    /\ sl_pc = "start"
    /\ sl_file' = save_to_file(sl_export_data)
    /\ sl_pc' = "saved"
    /\ UNCHANGED <<sl_export_data, sl_loaded, sl_exc>>
    /\ UNCHANGED notSaveLoad

\* lines 207-215: open, json.load and model_validate; every exception becomes
\* an ImportExportError
LoadFromFile ==
    /\ sl_pc \in {"start", "saved"}
    /\ LET validated == IF sl_file = Unset THEN None ELSE ValidateExportData(sl_file)
       IN  IF validated = None
           THEN /\ sl_pc' = "raised"
                /\ sl_exc' = "ImportExportError"
                /\ UNCHANGED sl_loaded
           ELSE /\ sl_pc' = "loaded"
                /\ sl_loaded' = validated
                /\ UNCHANGED sl_exc
    /\ UNCHANGED <<sl_export_data, sl_file>>
    /\ UNCHANGED notSaveLoad

\* what file_path holds before save_to_file: nothing, or a JSON file that is not
\* an export
FilesBefore ==
    {Unset, JList(<<>>),
     JDict([metadata |-> JDict([version |-> JStr("1.0"), strapi_version |-> JStr("v5")]),
            entities |-> JDict([ct \in {UID_ARTICLE} |->
                                  JList(<<JDict([title |-> JStr("t")])>>)])])}

InitSaveLoad ==
    /\ \E na \in 0..MaxSavedEntities : \E nb \in 0..(MaxSavedEntities - na) :
       \E ea \in SavedEntities(UID_AUTHOR, na), eb \in SavedEntities(UID_ARTICLE, nb) :
       \E cts \in {{UID_AUTHOR, UID_ARTICLE}, {UID_ARTICLE}} :
          /\ (UID_AUTHOR \notin cts) => na = 0
          /\ sl_export_data =
                [metadata |-> [version |-> "1.0", strapi_version |-> "v5"],
                 entities |-> [ct \in cts |-> IF ct = UID_AUTHOR THEN ea ELSE eb],
                 media |-> <<>>]
    /\ sl_file \in FilesBefore
    /\ sl_loaded = Unset
    /\ sl_pc = "start"
    /\ sl_exc = ""
    /\ IdleButSaveLoad

NextSaveLoad == SaveToFile \/ LoadFromFile

SpecSaveLoad == InitSaveLoad /\ [][NextSaveLoad]_vars

-----------------------------------------------------------------------------
(* RelationResolver.extract_relations_with_schema: the call and the calls  *)
(* of _extract_from_component it makes, as a stack of frames. A path key   *)
(* is the sequence of the pieces the f-strings put together: field names,  *)
(* "[i]" and ".".                                                          *)

MaxDepth      == 2        \* components nested inside a component field
MaxComponents == 2        \* items of a repeatable component field

\* a field the data does not have
Absent == [t |-> "absent"]

\* the dict with the given field names and values, fields marked Absent left out
DictOf(names, vals) ==
    [n \in {names[i] : i \in {j \in 1..Len(names) : vals[j] # Absent}} |->
        vals[CHOOSE i \in 1..Len(names) : names[i] = n]]

\* FieldSchema: type, component uid and repeatable flag
FieldSchema(type, component, repeatable) ==
    [type |-> type, component |-> component, repeatable |-> repeatable]

\* the content type's schema: a relation, a scalar, a single component, a
\* repeatable component and a dynamic zone
ContentTypeFields ==
    [author |-> FieldSchema("relation", "", FALSE),
     title  |-> FieldSchema("string", "", FALSE),
     seo    |-> FieldSchema("component", "c.a", FALSE),
     blocks |-> FieldSchema("component", "c.b", TRUE),
     zone   |-> FieldSchema("dynamiczone", "", FALSE)]

\* two component schemas that reference each other
ComponentFields(uid) ==
    [rel   |-> FieldSchema("relation", "", FALSE),
     child |-> FieldSchema("component", IF uid = "c.a" THEN "c.b" ELSE "c.a", FALSE)]

\* schema_cache.get_component_schema: the schema, or None when it raises StrapiError
get_component_schema(cache, uid) ==
    IF uid \notin {"c.a", "c.b"} \/ (cache = "b_fails" /\ uid = "c.b")
    THEN None
    ELSE Some("ContentTypeSchema", ComponentFields(uid))

\* the order in which data.items() yields the fields
NestedFieldOrder ==
    <<"title", "author", "extra", "seo", "blocks", "zone", "__component", "rel", "child">>

\* [item for item in field_value if isinstance(item, (int, str))]
RECURSIVE FlatIds(_)
FlatIds(items) ==
    IF items = <<>> THEN <<>>
    ELSE (IF Head(items).t = "int" THEN <<Head(items).n>> ELSE <<>>) \o FlatIds(Tail(items))

\* [item["id"] for item in relation_data if isinstance(item, dict) and "id" in item]
RECURSIVE ObjectIds(_)
ObjectIds(items) ==
    IF items = <<>> THEN <<>>
    ELSE (IF Head(items).t = "obj" /\ Head(items).id # NoId THEN <<Head(items).id>> ELSE <<>>)
            \o ObjectIds(Tail(items))

\* _extract_ids_from_field, lines 341-364: the list of ids, or None
_extract_ids_from_field(field_value) ==
    IF field_value.t = "null" THEN Some("list", <<>>)
    ELSE IF field_value.t = "data" /\ field_value.data.t = "null" THEN Some("list", <<>>)
    ELSE IF field_value.t = "data" /\ field_value.data.t = "obj"
            /\ field_value.data.id # NoId
    THEN Some("list", <<field_value.data.id>>)
    ELSE IF field_value.t = "data" /\ field_value.data.t = "list"
    THEN Some("list", ObjectIds(field_value.data.items))
    ELSE IF field_value.t = "int" THEN Some("list", <<field_value.n>>)
    ELSE IF field_value.t = "list" /\ FlatIds(field_value.items) # <<>>
    THEN Some("list", FlatIds(field_value.items))
    ELSE None

\* `if ... and field_value`: the truth value of a field value
FieldTruthy(v) ==
    /\ v.t # "null"
    /\ v.t = "list" => v.items # <<>>
    /\ v.t = "dict" => DOMAIN v.d # {}

\* one thing a frame still has to do: record a relation field, or call
\* _extract_from_component for a component value
Unit(kind, name, idx, uid, value) ==
    [kind |-> kind, name |-> name, idx |-> idx, uid |-> uid, value |-> value]

\* the calls for the items of a list: a repeatable component (uid given) or a
\* dynamic zone (uid "" : each item names its component in "__component")
RECURSIVE ItemUnits(_, _, _, _)
ItemUnits(name, items, uid, i) ==
    IF i > Len(items) THEN <<>>
    ELSE LET item == items[i]
             u == IF item.t # "dict" THEN <<>>
                  ELSE IF uid # "" THEN <<Unit("component", name, i - 1, uid, item)>>
                  ELSE IF "__component" \in DOMAIN item.d
                  THEN <<Unit("component", name, i - 1, item.d["__component"].s, item)>>
                  ELSE <<>>
         IN  u \o ItemUnits(name, items, uid, i + 1)

\* lines 222-256 (nested FALSE, the schema_cache tests included) and 296-325
\* (nested TRUE) for one field
UnitsOfField(name, value, fs, nested, cache) ==
    IF fs.type = "relation" THEN <<Unit("relation", name, -1, "", value)>>
    ELSE IF fs.type = "component" /\ (nested \/ cache # "none")
    THEN IF fs.component # "" /\ FieldTruthy(value)
         THEN IF fs.repeatable /\ value.t = "list"
              THEN ItemUnits(name, value.items, fs.component, 1)
              ELSE IF value.t = "dict"
              THEN <<Unit("component", name, -1, fs.component, value)>>
              ELSE <<>>
         ELSE <<>>
    ELSE IF fs.type = "dynamiczone" /\ (nested \/ cache # "none")
    THEN IF value.t = "list" THEN ItemUnits(name, value.items, "", 1) ELSE <<>>
    ELSE <<>>

\* the loop over data.items(): fields without a schema are passed over, and so is
\* "__component" inside a component
RECURSIVE UnitsOver(_, _, _, _, _)
UnitsOver(d, fields, names, nested, cache) ==
    IF names = <<>> THEN <<>>
    ELSE LET n == Head(names) IN
         (IF n \in DOMAIN d /\ n \in DOMAIN fields /\ ~(nested /\ n = "__component")
          THEN UnitsOfField(n, d[n], fields[n], nested, cache)
          ELSE <<>>)
         \o UnitsOver(d, fields, Tail(names), nested, cache)

IndexToken(idx) == <<"[0]", "[1]", "[2]", "[3]", "[4]">>[idx + 1]

\* a prefix that leaves the index of a list item out
NestedPrefixWithoutIndex(prefix, name, idx) == prefix \o <<name, ".">>

\* f"{full_key}." for a single component and f"{full_key}[{idx}]." for a list item
NestedPrefix(prefix, name, idx) ==
    prefix \o <<name>> \o (IF idx >= 0 THEN <<IndexToken(idx)>> ELSE <<>>) \o <<".">>

NoRelations == [key \in {} |-> <<>>]

\* the frame of a call: its prefix, what it still has to do, its `relations` dict
Frame(d, fields, prefix, nested, cache) ==
    [prefix |-> prefix,
     pending |-> UnitsOver(d, fields, NestedFieldOrder, nested, cache),
     relations |-> NoRelations]

\* extract_relations_with_schema is called
ExtractCall ==
    /\ xr_pc = "call"
    /\ xr_stack' = <<Frame(xr_data, ContentTypeFields, <<>>, FALSE, xr_cache)>>
    /\ xr_pc' = "run"
    /\ UNCHANGED <<xr_data, xr_cache, xr_ret>>
    /\ UNCHANGED notNested

\* the running call handles its next field or list item: a relation field is
\* recorded under prefix + field name; a component value starts a call of
\* _extract_from_component, which returns {} at once when the schema fetch raises
ExtractStep ==
    /\ xr_pc = "run"
    /\ xr_stack[Len(xr_stack)].pending # <<>>
    /\ LET top  == xr_stack[Len(xr_stack)]
           u    == Head(top.pending)
           rest == [top EXCEPT !.pending = Tail(@)]
       IN  IF u.kind = "relation"
           THEN LET ids == _extract_ids_from_field(u.value)
                    full_key == top.prefix \o <<u.name>>
                IN  xr_stack' = [xr_stack EXCEPT ![Len(xr_stack)] =
                        IF ids = None THEN rest
                        ELSE [rest EXCEPT !.relations = (full_key :> ids.v) @@ @]]
           ELSE LET component_schema == get_component_schema(xr_cache, u.uid)
                IN  IF component_schema = None
                    THEN xr_stack' = [xr_stack EXCEPT ![Len(xr_stack)] = rest]
                    ELSE xr_stack' =
                            Append([xr_stack EXCEPT ![Len(xr_stack)] = rest],
                                   Frame(u.value.d, component_schema.v,
                                         NestedPrefix(top.prefix, u.name, u.idx),
                                         TRUE, xr_cache))
    /\ UNCHANGED <<xr_data, xr_cache, xr_ret, xr_pc>>
    /\ UNCHANGED notNested

\* the running call returns its `relations`; the caller does relations.update(nested)
ExtractReturn ==
    /\ xr_pc = "run"
    /\ xr_stack[Len(xr_stack)].pending = <<>>
    /\ LET top == xr_stack[Len(xr_stack)] IN
       IF Len(xr_stack) = 1
       THEN /\ xr_ret' = Some("dict", top.relations)
            /\ xr_pc' = "done"
            /\ xr_stack' = <<>>
       ELSE /\ xr_stack' =
                 [SubSeq(xr_stack, 1, Len(xr_stack) - 1) EXCEPT ![Len(xr_stack) - 1] =
                     [@ EXCEPT !.relations = top.relations @@ @]]
            /\ UNCHANGED <<xr_ret, xr_pc>>
    /\ UNCHANGED <<xr_data, xr_cache>>
    /\ UNCHANGED notNested

\* the data of a component: a relation field and a child component, each present
\* or not, nested to the given depth
RECURSIVE ComponentData(_)
ComponentData(depth) ==
    {JDict(DictOf(<<"rel", "child">>, <<r, c>>)) :
        r \in {Absent, JData(JObj(5, FALSE))},
        c \in {Absent} \cup (IF depth = 0 THEN {} ELSE ComponentData(depth - 1))}

ComponentLists(n) ==
    UNION {{JList(items) : items \in [1..m -> ComponentData(0)]} : m \in 1..n}

\* a dynamic zone: an item of component c.a, or a string, an item of a component
\* the cache cannot fetch and an item of component c.b
ZoneValues ==
    {JList(<<JDict(("__component" :> JStr("c.a")) @@ ("rel" :> JNull))>>),
     JList(<<JStr("x"),
             JDict(("__component" :> JStr("c.x")) @@ ("rel" :> JInt(7))),
             JDict(("__component" :> JStr("c.b")) @@ ("rel" :> JInt(7)))>>)}

InitNested ==
    /\ \E author \in {JData(JList(<<JObj(1, FALSE), JObj(2, FALSE)>>)), JList(<<>>)},
          seo \in {Absent} \cup ComponentData(MaxDepth),
          blocks \in {Absent} \cup ComponentLists(MaxComponents),
          zone \in {Absent} \cup ZoneValues :
          xr_data = DictOf(<<"title", "author", "extra", "seo", "blocks", "zone">>,
                           <<JStr("t"), author, JData(JObj(9, FALSE)), seo, blocks, zone>>)
    /\ xr_cache \in {"none", "all", "b_fails"}
    /\ xr_stack = <<>>
    /\ xr_ret = Unset
    /\ xr_pc = "call"
    /\ IdleButNested

NextNested == ExtractCall \/ ExtractStep \/ ExtractReturn

SpecNested == InitNested /\ [][NextNested]_vars

\* the call runs whenever it can take a step
SpecNestedLive == SpecNested /\ WF_vars(NextNested)

\* a step on the way to a nested field: a field name and, for a list item, its index
Step(name, idx) == [name |-> name, idx |-> idx]

\* the relation fields of the data that the schemas lead to, each with the steps
\* leading to it and the ids its value holds
RECURSIVE RelationsAt(_, _, _)
RelationsAt(d, fields, steps) ==
    LET Inside(v, uid, st) ==
            IF v.t # "dict" \/ get_component_schema(xr_cache, uid) = None THEN {}
            ELSE RelationsAt(v.d, get_component_schema(xr_cache, uid).v, st)
        Of(n) ==
            LET v == d[n]  fs == fields[n] IN
            IF fs.type = "relation"
            THEN IF _extract_ids_from_field(v) = None THEN {}
                 ELSE {[steps |-> Append(steps, Step(n, -1)),
                        ids |-> _extract_ids_from_field(v).v]}
            ELSE IF xr_cache = "none" THEN {}
            ELSE IF fs.type = "component" /\ v.t = "dict"
            THEN Inside(v, fs.component, Append(steps, Step(n, -1)))
            ELSE IF fs.type = "component" /\ v.t = "list" /\ fs.repeatable
            THEN UNION {Inside(v.items[i], fs.component, Append(steps, Step(n, i - 1))) :
                           i \in 1..Len(v.items)}
            ELSE IF fs.type = "dynamiczone" /\ v.t = "list"
            THEN UNION {Inside(v.items[i], v.items[i].d["__component"].s,
                               Append(steps, Step(n, i - 1))) :
                           i \in {j \in 1..Len(v.items) :
                                     /\ v.items[j].t = "dict"
                                     /\ "__component" \in DOMAIN v.items[j].d}}
            ELSE {}
    IN  UNION {Of(n) : n \in (DOMAIN d \cap DOMAIN fields) \ {"__component"}}

\* field.subfield and field[i].subfield
RECURSIVE PathKey(_)
PathKey(steps) ==
    IF steps = <<>> THEN <<>>
    ELSE LET last == steps[Len(steps)]
             init == SubSeq(steps, 1, Len(steps) - 1)
         IN  PathKey(init) \o (IF init = <<>> THEN <<>> ELSE <<".">>) \o <<last.name>>
                \o (IF last.idx >= 0 THEN <<IndexToken(last.idx)>> ELSE <<>>)

\* C35: extract_relations_with_schema returns for every finite data value, also
\* when the component schemas reference each other, and what it returns holds
\* each relation field the schemas lead to, nested ones included, under the key
\* made of the field names and indices leading to it, and nothing else.
C35_TerminatesWithPathKeys ==
    /\ <>(xr_pc = "done")
    /\ [](xr_pc = "done" =>
            LET found == RelationsAt(xr_data, ContentTypeFields, <<>>) IN
            /\ DOMAIN xr_ret.v = {PathKey(r.steps) : r \in found}
            /\ \A r \in found : xr_ret.v[PathKey(r.steps)] = r.ids)

C35_Witness ==
    /\ xr_pc = "done"
    /\ <<"seo", ".", "child", ".", "child", ".", "rel">> \in DOMAIN xr_ret.v
    /\ <<"blocks", "[1]", ".", "rel">> \in DOMAIN xr_ret.v
    /\ <<"zone", "[2]", ".", "rel">> \in DOMAIN xr_ret.v
    /\ <<"author">> \in DOMAIN xr_ret.v

-----------------------------------------------------------------------------
(* The three conversions of a content-type UID to a collection endpoint:   *)
(* StrapiImporter._uid_to_endpoint, StrapiExporter._uid_to_endpoint_fallback *)
(* and utils.uid_to_endpoint, each run on the same UID.                    *)

\* the characters of a name
Letters(w) ==
    CASE w = "article"  -> <<"a","r","t","i","c","l","e">>
      [] w = "category" -> <<"c","a","t","e","g","o","r","y">>
      [] w = "blog"     -> <<"b","l","o","g">>
      [] w = "post"     -> <<"p","o","s","t">>
      [] w = "class"    -> <<"c","l","a","s","s">>
      [] w = "key"      -> <<"k","e","y">>
      [] w = "news"     -> <<"n","e","w","s">>

\* the API names and model names the UIDs are made of
UidNames == {"article", "category", "blog", "post", "class", "key", "news"}

\* utils.uid_to_endpoint
uid_to_endpoint(uid) ==
    LET parts == Split(uid, <<":", ":">>) IN
    IF Len(parts) = 2
    THEN LET api_model == parts[2]
             name == IF Find(api_model, <<".">>, 1) # 0
                     THEN Split(api_model, <<".">>)[2]
                     ELSE api_model
         IN  IF EndsWith(name, <<"y">>)
                /\ ~\E v \in {"a", "e", "o", "u"} : EndsWith(name, <<v, "y">>)
             THEN SubSeq(name, 1, Len(name) - 1) \o <<"i", "e", "s">>
             ELSE IF \E e \in {<<"s">>, <<"x">>, <<"z">>, <<"c", "h">>, <<"s", "h">>} :
                        EndsWith(name, e)
             THEN name \o <<"e", "s">>
             ELSE IF ~EndsWith(name, <<"s">>) THEN name \o <<"s">>
             ELSE name
    ELSE uid

ImporterEndpoint ==
    /\ ue_uid # <<>>
    /\ ue_importer = Unset
    /\ ue_importer' = Some("str", _uid_to_endpoint(ue_uid))
    /\ UNCHANGED <<ue_uid, ue_exporter, ue_utils>>
    /\ UNCHANGED notUid

ExporterEndpoint ==
    /\ ue_uid # <<>>
    /\ ue_exporter = Unset
    /\ ue_exporter' = Some("str", _uid_to_endpoint_fallback(ue_uid))
    /\ UNCHANGED <<ue_uid, ue_importer, ue_utils>>
    /\ UNCHANGED notUid

UtilsEndpoint ==
    /\ ue_uid # <<>>
    /\ ue_utils = Unset
    /\ ue_utils' = Some("str", uid_to_endpoint(ue_uid))
    /\ UNCHANGED <<ue_uid, ue_importer, ue_exporter>>
    /\ UNCHANGED notUid

\* api::<api name>.<model name>, api::<name> without a model name, and a bare name
InitUid ==
    /\ ue_uid \in
          {<<"a","p","i",":",":">> \o Letters(a) \o <<".">> \o Letters(m) :
              a \in UidNames, m \in UidNames}
          \cup {<<"a","p","i",":",":">> \o Letters(a) : a \in UidNames}
          \cup {Letters(a) : a \in UidNames}
    /\ ue_importer = Unset
    /\ ue_exporter = Unset
    /\ ue_utils = Unset
    /\ IdleButUid

NextUid == ImporterEndpoint \/ ExporterEndpoint \/ UtilsEndpoint

SpecUid == InitUid /\ [][NextUid]_vars

\* C40: for every UID the importer's endpoint, the exporter's endpoint without a
\* schema and utils.uid_to_endpoint are the same string.
C40_SameEndpointEverywhere ==
    (ue_importer # Unset /\ ue_exporter # Unset /\ ue_utils # Unset) =>
        /\ ue_importer.v = ue_exporter.v
        /\ ue_exporter.v = ue_utils.v

====
